---- MODULE Spec2Model ----
(***************************************************************************)
(* A model of blunav's positioning core: the algorithms module             *)
(* (src/src/algorithms) and the legacy module (src/src/positioning.rs).    *)
(*                                                                         *)
(* f64 values are modelled as extended rationals [n, d]: d > 0 is the      *)
(* finite value n/d in lowest terms, d = 0 is a non-finite value (n = 0    *)
(* NaN, n = 1 +inf, n = -1 -inf).  +, -, *, / are exact; sqrt is exact on  *)
(* perfect squares and rounded down to a multiple of 1/SqrtScale           *)
(* elsewhere; there is one zero (f64's -0.0 is 0).  Option<T> is a         *)
(* sequence: <<>> is None, <<v>> is Some(v).                               *)
(* The timestamp field of LocationResult (Utc::now()) is left out.         *)
(*                                                                         *)
(* Let(e, LAMBDA v : body) is "let v = e; body": it evaluates e once.      *)
(***************************************************************************)
EXTENDS Integers, Sequences, FiniteSets, TLC

(***************************************************************************)
(* Bounds of the model                                                     *)
(***************************************************************************)
\* anchors handed to the solvers lie on the grid 0..MaxX x 0..MaxY
MaxX == 2
MaxY == 1
\* distances handed to the solvers are 0..MaxDist
MaxDist == 1
\* sqrt of a non-square is rounded down to a multiple of 1/SqrtScale
SqrtScale == 10
\* a solver is handed 0..MaxMeas entries
MaxMeas == 3
\* the i-th entry of a run stands at height HeightStep * i
HeightStep == 1
\* an estimator is handed 0..MaxBeacons beacons
MaxBeacons == 4
\* fuse_results is handed 0..MaxFuse weighted results
MaxFuse == 2
\* a LocationSequence holds 0..MaxSeq results
MaxSeq == 3
\* a beacon set or a SignalReadings receives 0..MaxCalls changing calls
MaxCalls == 2
\* a list of beacons, pairs or measurements handed over has 0..MaxList entries
MaxList == 2

(***************************************************************************)
(* let bindings                                                            *)
(***************************************************************************)
Let(e, f(_)) == CHOOSE r \in {f(v) : v \in {e}} : TRUE

Let2(e1, e2, f(_, _)) == CHOOSE r \in {f(v1, v2) : v1 \in {e1}, v2 \in {e2}} : TRUE

(***************************************************************************)
(* f64 arithmetic                                                          *)
(***************************************************************************)
RECURSIVE Gcd(_, _)
Gcd(a, b) == IF b = 0 THEN a ELSE Gcd(b, a % b)

IAbs(i) == IF i < 0 THEN -i ELSE i

ISign(i) == IF i < 0 THEN -1 ELSE IF i > 0 THEN 1 ELSE 0

\* the f64 n/d (d # 0) in lowest terms with a positive denominator
Q(n0, d0) ==
    Let2(n0, d0, LAMBDA n, d :
        Let(Gcd(IAbs(n), IAbs(d)), LAMBDA g :
            [n |-> ISign(d) * (n \div g), d |-> IAbs(d) \div g]))

\* an integer literal as f64
F(i) == [n |-> i, d |-> 1]

NaN == [n |-> 0, d |-> 0]

PosInf == [n |-> 1, d |-> 0]

NegInf == [n |-> -1, d |-> 0]

IsNaN(a) == a.d = 0 /\ a.n = 0

IsFinite(a) == a.d > 0

\* the sign of a: -1, 0 or 1
RSign(a) == ISign(a.n)

RNeg(a0) == Let(a0, LAMBDA a : [n |-> -a.n, d |-> a.d])

RAbs(a0) == Let(a0, LAMBDA a : [n |-> IAbs(a.n), d |-> a.d])

RAdd(a0, b0) ==
    Let2(a0, b0, LAMBDA a, b :
        IF IsNaN(a) \/ IsNaN(b) THEN NaN
        ELSE IF IsFinite(a) /\ IsFinite(b)
             THEN Let(Gcd(a.d, b.d), LAMBDA g :
                      Q(a.n * (b.d \div g) + b.n * (a.d \div g), (a.d \div g) * b.d))
        ELSE IF IsFinite(a) THEN b
        ELSE IF IsFinite(b) THEN a
        ELSE IF a.n = b.n THEN a ELSE NaN)

RSub(a, b) == RAdd(a, RNeg(b))

RMul(a0, b0) ==
    Let2(a0, b0, LAMBDA a, b :
        IF IsNaN(a) \/ IsNaN(b) THEN NaN
        ELSE IF IsFinite(a) /\ IsFinite(b)
             THEN Let2(Gcd(IAbs(a.n), b.d), Gcd(IAbs(b.n), a.d), LAMBDA g, h :
                      Q((a.n \div g) * (b.n \div h), (a.d \div h) * (b.d \div g)))
        ELSE IF RSign(a) * RSign(b) = 0 THEN NaN
        ELSE [n |-> RSign(a) * RSign(b), d |-> 0])

RDiv(a0, b0) ==
    Let2(a0, b0, LAMBDA a, b :
        IF IsNaN(a) \/ IsNaN(b) THEN NaN
        ELSE IF IsFinite(a) /\ IsFinite(b)
             THEN IF b.n # 0
                  THEN Let2(Gcd(IAbs(a.n), IAbs(b.n)), Gcd(a.d, b.d), LAMBDA g, h :
                           Q((a.n \div g) * (b.d \div h), (a.d \div h) * (b.n \div g)))
                  ELSE [n |-> RSign(a), d |-> 0]
        ELSE IF IsFinite(a) THEN F(0)
        ELSE IF IsFinite(b) THEN [n |-> IF b.n < 0 THEN -a.n ELSE a.n, d |-> 0]
        ELSE NaN)

\* a < b; false when either is NaN
RLt(a0, b0) ==
    Let2(a0, b0, LAMBDA a, b :
        IF IsNaN(a) \/ IsNaN(b) THEN FALSE
        ELSE IF IsFinite(a) /\ IsFinite(b)
             THEN Let(Gcd(a.d, b.d), LAMBDA g :
                      a.n * (b.d \div g) < b.n * (a.d \div g))
        ELSE IF IsFinite(a) THEN b.n > 0
        ELSE IF IsFinite(b) THEN a.n < 0
        ELSE a.n < b.n)

\* a == b; false when either is NaN
REq(a0, b0) == Let2(a0, b0, LAMBDA a, b : ~IsNaN(a) /\ ~IsNaN(b) /\ a = b)

RLe(a0, b0) == Let2(a0, b0, LAMBDA a, b : RLt(a, b) \/ REq(a, b))

RGt(a, b) == RLt(b, a)

RGe(a, b) == RLe(b, a)

\* f64::min and f64::max: when one side is NaN the other is returned
RMin(a0, b0) ==
    Let2(a0, b0, LAMBDA a, b :
        IF IsNaN(a) THEN b ELSE IF IsNaN(b) THEN a ELSE IF RLt(b, a) THEN b ELSE a)

RMax(a0, b0) ==
    Let2(a0, b0, LAMBDA a, b :
        IF IsNaN(a) THEN b ELSE IF IsNaN(b) THEN a ELSE IF RLt(a, b) THEN b ELSE a)

RECURSIVE ISqrt(_)
ISqrt(i) ==
    IF i < 2 THEN i
    ELSE Let(2 * ISqrt(i \div 4), LAMBDA s :
             IF (s + 1) * (s + 1) <= i THEN s + 1 ELSE s)

IsSquare(i) == Let(ISqrt(i), LAMBDA s : s * s = i)

\* f64::sqrt
RSqrt(a0) ==
    Let(a0, LAMBDA a :
        IF IsNaN(a) THEN NaN
        ELSE IF ~IsFinite(a) THEN (IF a.n > 0 THEN PosInf ELSE NaN)
        ELSE IF a.n < 0 THEN NaN
        ELSE IF IsSquare(a.n) /\ IsSquare(a.d) THEN Q(ISqrt(a.n), ISqrt(a.d))
        ELSE Q(ISqrt(SqrtScale * SqrtScale * (a.n \div a.d)
                         + (SqrtScale * SqrtScale * (a.n % a.d)) \div a.d), SqrtScale))

\* n * 10^k < d for naturals n, d, k, computed without leaving 32 bits
RECURSIVE ScaledLess(_, _, _)
ScaledLess(n, d, k) ==
    IF k = 0 THEN n < d
    ELSE IF n > d \div 10 THEN FALSE
    ELSE ScaledLess(10 * n, d, k - 1)

\* the exponent of the threshold 1e-10
EpsExp == 10

\* a faulty a.abs() < 1e-10 that lets an exact zero through
AbsBelowEpsMutant(a0) ==
    Let(a0, LAMBDA a : IsFinite(a) /\ a.n # 0 /\ ScaledLess(IAbs(a.n), a.d, EpsExp))

\* a.abs() < 1e-10
AbsBelowEps(a0) == Let(a0, LAMBDA a : IsFinite(a) /\ ScaledLess(IAbs(a.n), a.d, EpsExp))

\* a < 1e-10
BelowEps(a0) ==
    Let(a0, LAMBDA a :
        IF IsFinite(a) THEN a.n <= 0 \/ ScaledLess(a.n, a.d, EpsExp)
        ELSE ~IsNaN(a) /\ a.n < 0)

\* Option<T>
None == <<>>

Some(v) == <<v>>

(***************************************************************************)
(* Sequences of f64                                                        *)
(***************************************************************************)
RECURSIVE RSumTo(_, _)
RSumTo(s, k) == IF k = 0 THEN F(0) ELSE RAdd(RSumTo(s, k - 1), s[k])

\* iter().sum::<f64>() and the "+=" accumulation loops: left to right from 0.0
RSum(s0) == Let(s0, LAMBDA s : RSumTo(s, Len(s)))

Map(s0, f(_)) == Let(s0, LAMBDA s : [i \in 1..Len(s) |-> f(s[i])])

(***************************************************************************)
(* algorithms::LocationResult                                              *)
(***************************************************************************)
\* a faulty LocationResult::new that stores the confidence as given
LocationResultNewMutant(x, y, z, confidence, error, method, beacon_count) ==
    [x |-> x, y |-> y, z |-> z, confidence |-> confidence,
     error |-> error, method |-> method, beacon_count |-> beacon_count]

\* LocationResult::new and LocationResult::with_timestamp
LocationResultNew(x, y, z, confidence, error, method, beacon_count) ==
    [x |-> x, y |-> y, z |-> z,
     confidence |-> RMin(RMax(confidence, F(0)), F(1)),
     error |-> error, method |-> method, beacon_count |-> beacon_count]

(***************************************************************************)
(* algorithms::LocationAlgorithm, the private solvers.  A measurement is   *)
(* [x, y, z, d]; a weighted measurement is [x, y, z, d, w].                *)
(***************************************************************************)
\* the planar distance from (x, y) to the anchor of measurement m
CalcDist(m, x, y) ==
    Let2(RSub(x, m.x), RSub(y, m.y), LAMBDA dx, dy :
        RSqrt(RAdd(RMul(dx, dx), RMul(dy, dy))))

\* LocationAlgorithm::_calculate_error: the RMS residual
CalculateError(measurements, x, y) ==
    IF measurements = <<>> THEN F(0)
    ELSE LET Sq(m) == Let(RAbs(RSub(CalcDist(m, x, y), m.d)), LAMBDA error :
                          RMul(error, error))
         IN  RSqrt(RDiv(RSum(Map(measurements, Sq)), F(Len(measurements))))

\* the divisor in 1.0 / (1.0 + error / 100.0)
ConfDiv == 100

\* the confidence without the division of the error by 100
ConfidenceOfMutant(error) == RMin(RDiv(F(1), RAdd(F(1), error)), F(1))

\* (1.0 / (1.0 + error / 100.0)).min(1.0)
ConfidenceOf(error) == RMin(RDiv(F(1), RAdd(F(1), RDiv(error, F(ConfDiv)))), F(1))

\* r1^2 - r2^2 - x1^2 + x2^2 - y1^2 + y2^2
CircleDiff(m1, m2) ==
    RAdd(RSub(RAdd(RSub(RSub(RMul(m1.d, m1.d), RMul(m2.d, m2.d)),
                        RMul(m1.x, m1.x)), RMul(m2.x, m2.x)),
              RMul(m1.y, m1.y)), RMul(m2.y, m2.y))

\* a faulty Cramer's rule: the numerator of y has its terms swapped
CramerMutant(a11, a12, a21, a22, b1, b2) ==
    Let(<<a11, a12, a21, a22, b1, b2>>, LAMBDA c :
        Let(RSub(RMul(c[1], c[4]), RMul(c[2], c[3])), LAMBDA det :
            IF AbsBelowEps(det) THEN None
            ELSE Some([x |-> RDiv(RSub(RMul(c[5], c[4]), RMul(c[6], c[2])), det),
                       y |-> RDiv(RSub(RMul(c[3], c[5]), RMul(c[1], c[6])), det)])))

\* Cramer's rule on [[a11, a12], [a21, a22]] (x, y) = (b1, b2); None when
\* det.abs() < 1e-10
Cramer(a11, a12, a21, a22, b1, b2) ==
    Let(<<a11, a12, a21, a22, b1, b2>>, LAMBDA c :
        Let(RSub(RMul(c[1], c[4]), RMul(c[2], c[3])), LAMBDA det :
            IF AbsBelowEps(det) THEN None
            ELSE Some([x |-> RDiv(RSub(RMul(c[5], c[4]), RMul(c[6], c[2])), det),
                       y |-> RDiv(RSub(RMul(c[1], c[6]), RMul(c[3], c[5])), det)])))

\* LocationAlgorithm::_trilateration_basic_impl
TrilaterationBasicImpl(measurements) ==
    IF Len(measurements) < 3 THEN None
    ELSE LET m1 == measurements[1]
             m2 == measurements[2]
             m3 == measurements[3]
         IN  Let(Cramer(RMul(F(2), RSub(m2.x, m1.x)), RMul(F(2), RSub(m2.y, m1.y)),
                        RMul(F(2), RSub(m3.x, m1.x)), RMul(F(2), RSub(m3.y, m1.y)),
                        CircleDiff(m1, m2), CircleDiff(m1, m3)), LAMBDA xy :
                 IF xy = None THEN None
                 ELSE Let(CalculateError(measurements, xy[1].x, xy[1].y), LAMBDA error :
                          Some(LocationResultNew(
                              xy[1].x, xy[1].y,
                              RDiv(RAdd(RAdd(m1.z, m2.z), m3.z), F(3)),
                              ConfidenceOf(error), error, "trilateration_basic", 3))))

\* a weighted measurement without its weight
Unweighted(m) == [x |-> m.x, y |-> m.y, z |-> m.z, d |-> m.d]

\* LocationAlgorithm::_trilateration_weighted_impl
TrilaterationWeightedImpl(measurements) ==
    IF Len(measurements) < 3 THEN None
    ELSE LET m1 == measurements[1]
             m2 == measurements[2]
             m3 == measurements[3]
         IN  Let(Cramer(RMul(RMul(F(2), RSub(m2.x, m1.x)), m2.w),
                        RMul(RMul(F(2), RSub(m2.y, m1.y)), m2.w),
                        RMul(RMul(F(2), RSub(m3.x, m1.x)), m3.w),
                        RMul(RMul(F(2), RSub(m3.y, m1.y)), m3.w),
                        RMul(CircleDiff(m1, m2), m2.w),
                        RMul(CircleDiff(m1, m3), m3.w)), LAMBDA xy :
                 IF xy = None THEN None
                 ELSE Let2(Map(measurements, Unweighted), RAdd(RAdd(m1.w, m2.w), m3.w),
                           LAMBDA unweighted, wsum :
                          Let(CalculateError(unweighted, xy[1].x, xy[1].y), LAMBDA error :
                              Some(LocationResultNew(
                                  xy[1].x, xy[1].y,
                                  RDiv(RAdd(RAdd(RMul(m1.z, m1.w), RMul(m2.z, m2.w)),
                                            RMul(m3.z, m3.w)), wsum),
                                  ConfidenceOf(error), error, "trilateration_weighted",
                                  Len(measurements))))))

\* the body of _trilateration_least_squares_impl: the anchors' centroid
Centroid(measurements) ==
    LET n == F(Len(measurements))
        X(m) == m.x
        Y(m) == m.y
        Z(m) == m.z
    IN  Let2(RDiv(RSum(Map(measurements, X)), n),
             RDiv(RSum(Map(measurements, Y)), n), LAMBDA x, y :
            Let(CalculateError(measurements, x, y), LAMBDA error :
                Some(LocationResultNew(
                    x, y, RDiv(RSum(Map(measurements, Z)), n),
                    ConfidenceOf(error), error, "trilateration_least_squares",
                    Len(measurements)))))

\* a faulty _trilateration_least_squares_impl that accepts any non-empty list
TrilaterationLeastSquaresImplMutant(measurements) ==
    IF measurements = <<>> THEN None ELSE Centroid(measurements)

\* LocationAlgorithm::_trilateration_least_squares_impl
TrilaterationLeastSquaresImpl(measurements) ==
    IF Len(measurements) < 3 THEN None ELSE Centroid(measurements)

(***************************************************************************)
(* positioning.rs, the legacy module.  Its LocationResult has no           *)
(* beacon_count and is built without clamping.  The method tags are        *)
(* written in ASCII here.                                                  *)
(***************************************************************************)
LegacyResult(x, y, z, confidence, error, method) ==
    [x |-> x, y |-> y, z |-> z, confidence |-> confidence, error |-> error,
     method |-> method]

\* positioning::calculate_error: the mean absolute residual over all entries
LegacyCalculateError(bwd, x, y) ==
    LET Res(m) == RAbs(RSub(CalcDist(m, x, y), m.d))
    IN  RDiv(RSum(Map(bwd, Res)), F(Len(bwd)))

\* positioning::calculate_weighted_error
CalculateWeightedError(bwd, x, y) ==
    LET Res(m) == RMul(m.w, RAbs(RSub(CalcDist(m, x, y), m.d)))
        W(m) == m.w
    IN  Let2(RSum(Map(bwd, Res)), RSum(Map(bwd, W)),
             LAMBDA total_error, total_weight :
                 IF RGt(total_weight, F(0)) THEN RDiv(total_error, total_weight)
                 ELSE PosInf)

\* positioning::trilateration_basic
LegacyTrilaterationBasic(bwd) ==
    IF Len(bwd) < 3 THEN None
    ELSE LET m1 == bwd[1]
             m2 == bwd[2]
             m3 == bwd[3]
         IN  Let(Cramer(RMul(F(2), RSub(m2.x, m1.x)), RMul(F(2), RSub(m2.y, m1.y)),
                        RMul(F(2), RSub(m3.x, m1.x)), RMul(F(2), RSub(m3.y, m1.y)),
                        CircleDiff(m1, m2), CircleDiff(m1, m3)), LAMBDA xy :
                 IF xy = None THEN None
                 ELSE Let(LegacyCalculateError(bwd, xy[1].x, xy[1].y), LAMBDA error :
                          Some(LegacyResult(
                              xy[1].x, xy[1].y,
                              RDiv(RAdd(RAdd(m1.z, m2.z), m3.z), F(3)),
                              ConfidenceOf(error), error, "legacy_basic"))))

\* the threshold in "if d < 50.0"
NearDist == 50

\* the divisor in d * d / 10000.0
WeightNorm == 10000

\* the weight positioning::trilateration_weighted gives a distance
LegacyWeight(d) ==
    IF RLt(d, F(NearDist)) THEN F(1)
    ELSE RDiv(F(1), RDiv(RMul(d, d), F(WeightNorm)))

\* a measurement with its legacy weight
WithLegacyWeight(m) == [x |-> m.x, y |-> m.y, z |-> m.z, d |-> m.d, w |-> LegacyWeight(m.d)]

\* positioning::trilateration_weighted
LegacyTrilaterationWeighted(bwd) ==
    IF Len(bwd) < 3 THEN None
    ELSE Let(Map(bwd, WithLegacyWeight), LAMBDA weighted_beacons :
             LET m1 == weighted_beacons[1]
                 m2 == weighted_beacons[2]
                 m3 == weighted_beacons[3]
             IN  Let2(RMul(m1.w, m2.w), RMul(m1.w, m3.w), LAMBDA w12, w13 :
                     Let(Cramer(RMul(RMul(F(2), RSub(m2.x, m1.x)), w12),
                                RMul(RMul(F(2), RSub(m2.y, m1.y)), w12),
                                RMul(RMul(F(2), RSub(m3.x, m1.x)), w13),
                                RMul(RMul(F(2), RSub(m3.y, m1.y)), w13),
                                RMul(CircleDiff(m1, m2), w12),
                                RMul(CircleDiff(m1, m3), w13)), LAMBDA xy :
                         IF xy = None THEN None
                         ELSE Let(CalculateWeightedError(weighted_beacons,
                                                         xy[1].x, xy[1].y), LAMBDA error :
                                  Some(LegacyResult(
                                      xy[1].x, xy[1].y,
                                      RDiv(RAdd(RAdd(m1.z, m2.z), m3.z), F(3)),
                                      ConfidenceOf(error), error, "legacy_weighted"))))))

\* The descent loop of positioning::trilateration_least_squares works in
\* finite precision: each of its quantities is rounded down to a multiple
\* of 1/LsqScale.
LsqScale == 100

Rd(a0) ==
    Let(a0, LAMBDA a :
        IF IsFinite(a) THEN Q((a.n * LsqScale) \div a.d, LsqScale) ELSE a)

\* the bound of "for _ in 0..5"
LsqIterations == 5

\* what one entry adds to the sums of one pass of the loop at p = [x, y]
LsqTerm(m, p) ==
    Let(Rd(CalcDist(m, p.x, p.y)), LAMBDA dist :
        Let(RSub(dist, m.d), LAMBDA error :
            Let(Rd(RDiv(F(1), RAdd(F(1), RMax(Rd(RDiv(RAbs(error), m.d)), Q(1, 10))))),
                LAMBDA weight :
                    LET dx == IF RGt(dist, Q(1, 1000000))
                              THEN Rd(RDiv(RSub(p.x, m.x), dist)) ELSE F(0)
                        dy == IF RGt(dist, Q(1, 1000000))
                              THEN Rd(RDiv(RSub(p.y, m.y), dist)) ELSE F(0)
                    IN  [wx |-> Rd(RMul(weight, dx)), wy |-> Rd(RMul(weight, dy)),
                         wf |-> Rd(RMul(weight, error)), w |-> weight])))

\* one pass of the loop body from p = [x, y]; <<>> when the loop breaks
LsqStep(bwd, p) ==
    Let([i \in 1..Len(bwd) |-> LsqTerm(bwd[i], p)], LAMBDA t :
        Let([wx |-> RSum([i \in 1..Len(t) |-> t[i].wx]),
             wy |-> RSum([i \in 1..Len(t) |-> t[i].wy]),
             wf |-> RSum([i \in 1..Len(t) |-> t[i].wf]),
             w |-> RSum([i \in 1..Len(t) |-> t[i].w])], LAMBDA sum :
            LET StepOf(sum_d) ==
                    Rd(RDiv(Rd(RMul(Rd(RMul(Q(1, 20), sum_d)), sum.wf)), sum.w))
            IN  IF BelowEps(sum.w) THEN <<>>
                ELSE <<[x |-> Rd(RSub(p.x, StepOf(sum.wx))),
                        y |-> Rd(RSub(p.y, StepOf(sum.wy)))]>>))

\* the loop: k passes from p, or fewer when it breaks
RECURSIVE LsqLoop(_, _, _)
LsqLoop(bwd, p, k) ==
    IF k = 0 THEN p
    ELSE Let(LsqStep(bwd, p), LAMBDA s :
             IF s = <<>> THEN p ELSE LsqLoop(bwd, s[1], k - 1))

\* positioning::trilateration_least_squares
LegacyTrilaterationLeastSquares(bwd) ==
    IF Len(bwd) < 3 THEN None
    ELSE Let(LegacyTrilaterationBasic(bwd), LAMBDA initial :
             IF initial = None THEN None
             ELSE Let(LsqLoop(bwd, [x |-> initial[1].x, y |-> initial[1].y],
                              LsqIterations), LAMBDA p :
                      Let(LegacyCalculateError(bwd, p.x, p.y), LAMBDA error :
                          LET Z(m) == m.z
                          IN  Some(LegacyResult(
                                  p.x, p.y, RDiv(RSum(Map(bwd, Z)), F(Len(bwd))),
                                  ConfidenceOf(error), error, "legacy_least_squares")))))

(***************************************************************************)
(* algorithms::RSSIModel                                                   *)
(***************************************************************************)
\* RSSIModel::free_space
FreeSpace(a, unit) ==
    [a |-> a, b |-> F(-20), n |-> F(2), unit |-> unit, model_type |-> "free_space"]

\* RSSIModel::convert_distance
ConvertDistance(model, distance, from_unit) ==
    IF from_unit = model.unit THEN distance
    ELSE IF from_unit = "Meter" /\ model.unit = "Centimeter" THEN RMul(distance, F(100))
    ELSE IF from_unit = "Meter" /\ model.unit = "Millimeter" THEN RMul(distance, F(1000))
    ELSE IF from_unit = "Centimeter" /\ model.unit = "Meter" THEN RDiv(distance, F(100))
    ELSE IF from_unit = "Centimeter" /\ model.unit = "Millimeter" THEN RMul(distance, F(10))
    ELSE IF from_unit = "Millimeter" /\ model.unit = "Meter" THEN RDiv(distance, F(1000))
    ELSE IF from_unit = "Millimeter" /\ model.unit = "Centimeter" THEN RDiv(distance, F(10))
    ELSE distance

RECURSIVE IPow10(_)
IPow10(k) == IF k = 0 THEN 1 ELSE 10 * IPow10(k - 1)

\* (a * 10^-k).abs() < 1e-10: the test on a value too small for the
\* rationals here, held as a and its decimal exponent k
AbsBelowEpsAt(a0, k) ==
    Let(a0, LAMBDA a :
        /\ IsFinite(a)
        /\ IF k <= EpsExp THEN ScaledLess(IAbs(a.n), a.d, EpsExp - k)
           ELSE IAbs(a.n) < a.d * IPow10(k - EpsExp))

\* Cramer's rule when every coefficient and right-hand side is the one given
\* times 10^-e: det is the determinant given times 10^-2e, and the factor
\* cancels in x and y
CramerAt(a11, a12, a21, a22, b1, b2, e) ==
    Let(<<a11, a12, a21, a22, b1, b2>>, LAMBDA c :
        Let(RSub(RMul(c[1], c[4]), RMul(c[2], c[3])), LAMBDA det :
            IF AbsBelowEpsAt(det, 2 * e) THEN None
            ELSE Some([x |-> RDiv(RSub(RMul(c[5], c[4]), RMul(c[6], c[2])), det),
                       y |-> RDiv(RSub(RMul(c[1], c[6]), RMul(c[3], c[5])), det)])))

\* LocationAlgorithm::_trilateration_weighted_impl on measurements whose
\* weights are w * 10^-e for the w given; the factor cancels in z too
TrilaterationWeightedImplAt(measurements, e) ==
    IF Len(measurements) < 3 THEN None
    ELSE LET m1 == measurements[1]
             m2 == measurements[2]
             m3 == measurements[3]
         IN  Let(CramerAt(RMul(RMul(F(2), RSub(m2.x, m1.x)), m2.w),
                          RMul(RMul(F(2), RSub(m2.y, m1.y)), m2.w),
                          RMul(RMul(F(2), RSub(m3.x, m1.x)), m3.w),
                          RMul(RMul(F(2), RSub(m3.y, m1.y)), m3.w),
                          RMul(CircleDiff(m1, m2), m2.w),
                          RMul(CircleDiff(m1, m3), m3.w), e), LAMBDA xy :
                 IF xy = None THEN None
                 ELSE Let2(Map(measurements, Unweighted), RAdd(RAdd(m1.w, m2.w), m3.w),
                           LAMBDA unweighted, wsum :
                          Let(CalculateError(unweighted, xy[1].x, xy[1].y), LAMBDA error :
                              Some(LocationResultNew(
                                  xy[1].x, xy[1].y,
                                  RDiv(RAdd(RAdd(RMul(m1.z, m1.w), RMul(m2.z, m2.w)),
                                            RMul(m3.z, m3.w)), wsum),
                                  ConfidenceOf(error), error, "trilateration_weighted",
                                  Len(measurements))))))

\* 10^(j/10) for j = 1..9, in thousandths
Pow10Tenths == <<1259, 1585, 1995, 2512, 3162, 3981, 5012, 6310, 7943>>

\* the largest decimal exponent of a finite f64: beyond it 10^e is +inf, and
\* below -MaxExp10 - 16 it is 0
MaxExp10 == 308

\* 10_f64.powf(e): exact when e is an integer, else e is rounded down to a
\* tenth and the power of the fraction is read from Pow10Tenths
Pow10(e0) ==
    Let(e0, LAMBDA e :
        IF IsNaN(e) THEN NaN
        ELSE IF ~IsFinite(e) THEN (IF e.n > 0 THEN PosInf ELSE F(0))
        ELSE IF RGt(e, F(MaxExp10)) THEN PosInf
        ELSE IF RLt(e, F(-MaxExp10 - 16)) THEN F(0)
        ELSE LET k == IF e.n >= 0 THEN e.n \div e.d ELSE -((-e.n + e.d - 1) \div e.d)
                 j == ((e.n - k * e.d) * 10) \div e.d
                 frac == IF j = 0 THEN F(1) ELSE Q(Pow10Tenths[j], 1000)
             IN  IF k >= 0 THEN RMul(F(IPow10(k)), frac)
                 ELSE RMul(Q(1, IPow10(-k)), frac))

\* RSSIModel::rssi_to_distance
RssiToDistance(model, rssi) ==
    Let(RDiv(RSub(F(rssi), model.a), model.b), LAMBDA exponent :
        ConvertDistance(model, Pow10(exponent), "Meter"))

(***************************************************************************)
(* algorithms::SignalReadings is a function from beacon ids to RSSI; a     *)
(* beacon is [id, x, y, z].                                                *)
(***************************************************************************)
\* SignalReadings::get
SignalsGet(sig, id) == IF id \in DOMAIN sig THEN Some(sig[id]) ELSE None

\* beacons.iter().take(n)
Take(s, n) == SubSeq(s, 1, IF Len(s) < n THEN Len(s) ELSE n)

\* the listed beacons that have a reading, in list order
WithReading(bs, sig) == SelectSeq(bs, LAMBDA b : SignalsGet(sig, b.id) # None)

\* the width of an RSSI, an i16
I16Bits == 16

\* an integer v as the i16 a wrapping operation leaves
WrapI16(v) == ((v + 2^(I16Bits - 1)) % 2^I16Bits) - 2^(I16Bits - 1)

\* -rssi on an i16 overflows: it panics in a build with overflow checks and
\* wraps in one without
NegOverflows(rssi) == -rssi # WrapI16(-rssi)

\* 1.0 / ((-rssi as f64).abs() / 100.0 + 0.1), the negation made on the i16
SignalWeight(rssi) ==
    RDiv(F(1), RAdd(RDiv(RAbs(F(WrapI16(-rssi))), F(100)), Q(1, 10)))

\* the beacons whose readings trilateration_weighted turns into weights
Weighed(bs, sig) == IF Len(bs) < 3 THEN <<>> ELSE WithReading(Take(bs, 3), sig)

\* LocationAlgorithm::trilateration_basic
TrilaterationBasic(bs, sig, model) ==
    IF Len(bs) < 3 THEN None
    ELSE LET Measure(b) == [x |-> b.x, y |-> b.y, z |-> b.z,
                            d |-> RssiToDistance(model, sig[b.id])]
         IN  Let(Map(WithReading(Take(bs, 3), sig), Measure), LAMBDA measurements :
                 IF Len(measurements) < 3 THEN None
                 ELSE TrilaterationBasicImpl(measurements))

\* LocationAlgorithm::trilateration_weighted
TrilaterationWeighted(bs, sig, model) ==
    IF Len(bs) < 3 THEN None
    ELSE LET Measure(b) == [x |-> b.x, y |-> b.y, z |-> b.z,
                            d |-> RssiToDistance(model, sig[b.id]),
                            w |-> SignalWeight(sig[b.id])]
         IN  Let(Map(WithReading(Take(bs, 3), sig), Measure),
                 LAMBDA weighted_measurements :
                     IF Len(weighted_measurements) < 3 THEN None
                     ELSE TrilaterationWeightedImpl(weighted_measurements))

\* LocationAlgorithm::trilateration_least_squares
TrilaterationLeastSquares(bs, sig, model) ==
    IF Len(bs) < 3 THEN None
    ELSE LET Measure(b) == [x |-> b.x, y |-> b.y, z |-> b.z,
                            d |-> RssiToDistance(model, sig[b.id])]
         IN  Let(Map(WithReading(bs, sig), Measure), LAMBDA measurements :
                 IF Len(measurements) < 3 THEN None
                 ELSE TrilaterationLeastSquaresImpl(measurements))

\* a faulty maximum: the sum of the first k of s
RECURSIVE MaxOfMutant(_, _)
MaxOfMutant(s, k) == IF k = 0 THEN 0 ELSE MaxOfMutant(s, k - 1) + s[k]

\* .max().unwrap_or(0) over the first k of a sequence s of counts
RECURSIVE MaxOf(_, _)
MaxOf(s, k) ==
    IF k = 0 THEN 0
    ELSE Let(MaxOf(s, k - 1), LAMBDA m : IF s[k] > m THEN s[k] ELSE m)

\* a faulty fusion that divides the weighted sums by the number of results
FusedMutant(rs, total_weight) ==
    LET Mean(Field(_)) ==
            RDiv(RSum([i \in 1..Len(rs) |-> RMul(Field(rs[i][1]), rs[i][2])]),
                 F(Len(rs)))
        X(r) == r.x
        Y(r) == r.y
        Z(r) == r.z
        Confidence(r) == r.confidence
        Error(r) == r.error
    IN  LocationResultNew(
            Mean(X), Mean(Y), Mean(Z), Mean(Confidence), Mean(Error), "fused",
            MaxOf([i \in 1..Len(rs) |-> rs[i][1].beacon_count], Len(rs)))

\* the fused result of fuse_results; rs is a list of <<result, weight>>
Fused(rs, total_weight) ==
    LET Mean(Field(_)) ==
            RDiv(RSum([i \in 1..Len(rs) |-> RMul(Field(rs[i][1]), rs[i][2])]),
                 total_weight)
        X(r) == r.x
        Y(r) == r.y
        Z(r) == r.z
        Confidence(r) == r.confidence
        Error(r) == r.error
    IN  LocationResultNew(
            Mean(X), Mean(Y), Mean(Z), Mean(Confidence), Mean(Error), "fused",
            MaxOf([i \in 1..Len(rs) |-> rs[i][1].beacon_count], Len(rs)))

\* a faulty fuse_results that does not look at the total weight
FuseResultsMutant(rs) ==
    IF rs = <<>> THEN None
    ELSE Let(RSum([i \in 1..Len(rs) |-> rs[i][2]]), LAMBDA total_weight :
             Some(Fused(rs, total_weight)))

\* LocationAlgorithm::fuse_results
FuseResults(rs) ==
    IF rs = <<>> THEN None
    ELSE Let(RSum([i \in 1..Len(rs) |-> rs[i][2]]), LAMBDA total_weight :
             IF REq(total_weight, F(0)) THEN None
             ELSE Some(Fused(rs, total_weight)))

(***************************************************************************)
(* algorithms::LocationSequence                                            *)
(***************************************************************************)
\* the average of a slice of results under a method tag
AverageOf(slice, method) ==
    LET count == F(Len(slice))
        X(r) == r.x
        Y(r) == r.y
        Z(r) == r.z
        Confidence(r) == r.confidence
        Error(r) == r.error
    IN  LocationResultNew(
            RDiv(RSum(Map(slice, X)), count), RDiv(RSum(Map(slice, Y)), count),
            RDiv(RSum(Map(slice, Z)), count), RDiv(RSum(Map(slice, Confidence)), count),
            RDiv(RSum(Map(slice, Error)), count), method, 0)

\* average_position returning the last entry
AveragePositionMutant(rs) ==
    IF rs = <<>> THEN None ELSE Some(AverageOf(SubSeq(rs, Len(rs), Len(rs)), "average"))

\* LocationSequence::average_position
AveragePosition(rs) ==
    IF rs = <<>> THEN None ELSE Some(AverageOf(rs, "average"))

\* average_last_n with the window starting at self.results.len() - n always
AverageLastNMutant(rs, n) ==
    IF rs = <<>> THEN None
    ELSE LET start == IF Len(rs) > n THEN Len(rs) - n ELSE Len(rs) - 1
         IN  Some(AverageOf(SubSeq(rs, start + 1, Len(rs)),
                            "average_last_" \o ToString(n)))

\* LocationSequence::average_last_n
AverageLastN(rs, n) ==
    IF rs = <<>> THEN None
    ELSE LET start == IF Len(rs) > n THEN Len(rs) - n ELSE 0
         IN  Some(AverageOf(SubSeq(rs, start + 1, Len(rs)),
                            "average_last_" \o ToString(n)))

(***************************************************************************)
(* KalmanFilter1D (location_algorithms.rs).  The filter's arithmetic is    *)
(* fixed-point: the result of every operation is rounded to the nearest    *)
(* multiple of 1/KalmanScale, as f64 rounds it to the nearest double.      *)
(***************************************************************************)
\* the results of the filter's operations are multiples of 1/KalmanScale
KalmanScale == 10000
\* a filter is fed 0..MaxUpdates measurements
MaxUpdates == 60
\* a filter is fed 0..MaxFeeds measurements of its caller's choice
MaxFeeds == 3

\* i / j rounded to the nearest integer (j > 0)
RoundDiv(i, j) == IF 2 * (i % j) >= j THEN (i \div j) + 1 ELSE i \div j

\* a rounded to the nearest multiple of 1/KalmanScale
Fx(a0) ==
    Let(a0, LAMBDA a :
        IF ~IsFinite(a) THEN a
        ELSE Let(Gcd(KalmanScale, a.d), LAMBDA g :
                 Q(RoundDiv(a.n * (KalmanScale \div g), a.d \div g), KalmanScale)))

FAdd(a, b) == Fx(RAdd(a, b))

FSub(a, b) == Fx(RSub(a, b))

FMul(a, b) == Fx(RMul(a, b))

FDiv(a, b) == Fx(RDiv(a, b))

\* KalmanFilter1D::new(q, r, initial_value)
KalmanFilter1DNew(q, r, initial_value) ==
    [q |-> Fx(q), r |-> Fx(r), p |-> F(1), value |-> Fx(initial_value)]

\* the gain of update with the quotient inverted
GainMutant(p, r) == FDiv(FAdd(p, r), p)

\* the gain k of update: p / (p + r)
Gain(p, r) == FDiv(p, FAdd(p, r))

\* update with the covariance corrected from the one before the prediction
KalmanUpdateMutant(f0, measurement) ==
    Let(f0, LAMBDA f :
        Let(FAdd(f.p, f.q), LAMBDA p :
            Let(Gain(p, f.r), LAMBDA k :
                [q |-> f.q, r |-> f.r,
                 p |-> FMul(FSub(F(1), k), f.p),
                 value |-> FAdd(f.value, FMul(k, FSub(measurement, f.value)))])))

\* the filter after KalmanFilter1D::update(measurement); update returns its value
KalmanUpdate(f0, measurement) ==
    Let(f0, LAMBDA f :
        Let(FAdd(f.p, f.q), LAMBDA p :
            Let(Gain(p, f.r), LAMBDA k :
                [q |-> f.q, r |-> f.r,
                 p |-> FMul(FSub(F(1), k), p),
                 value |-> FAdd(f.value, FMul(k, FSub(measurement, f.value)))])))

\* KalmanFilter3D::new(q, r, initial_x, initial_y, initial_z)
KalmanFilter3DNew(q, r, initial_x, initial_y, initial_z) ==
    [x_filter |-> KalmanFilter1DNew(q, r, initial_x),
     y_filter |-> KalmanFilter1DNew(q, r, initial_y),
     z_filter |-> KalmanFilter1DNew(q, r, initial_z)]

\* update with the y filter fed the x measurement
KalmanFilter3DUpdateMutant(f, x, y, z) ==
    [x_filter |-> KalmanUpdate(f.x_filter, x),
     y_filter |-> KalmanUpdate(f.y_filter, x),
     z_filter |-> KalmanUpdate(f.z_filter, z)]

\* the filter after KalmanFilter3D::update(x, y, z)
KalmanFilter3DUpdate(f, x, y, z) ==
    [x_filter |-> KalmanUpdate(f.x_filter, x),
     y_filter |-> KalmanUpdate(f.y_filter, y),
     z_filter |-> KalmanUpdate(f.z_filter, z)]

\* KalmanFilter3D::state, also the tuple update returns
KalmanFilter3DState(f) == <<f.x_filter.value, f.y_filter.value, f.z_filter.value>>

(***************************************************************************)
(* positioning::KalmanFilter, the filter of position and velocity.  Its    *)
(* update adds 1e-10 to dt, which the rationals here cannot hold next to   *)
(* 1, so times are counted in ticks of 1e-10 s (dt = ticks * 1e-10,        *)
(* dt + 1e-10 = (ticks + 1) * 1e-10) and vx, vy are held times 1e-10:      *)
(* vx * dt is then the held vx times ticks, exactly.                       *)
(***************************************************************************)
\* an update's dt is 0..MaxTicks ticks
MaxTicks == 2

\* KalmanFilter::new(x, y)
KalmanFilterNew(x, y) ==
    [x |-> x, y |-> y, vx |-> F(0), vy |-> F(0),
     p_xx |-> F(100), p_yy |-> F(100), p_vv |-> F(1)]

\* p_vv * dt * dt + 10.0 for a dt of a few ticks: the product is below 1e-18,
\* less than half the spacing of doubles at 10.0, and the f64 sum is 10.0
ProcessNoise(p_vv, ticks) == IF IsFinite(p_vv) THEN F(10) ELSE RAdd(p_vv, F(10))

\* the filter after KalmanFilter::update(measured_x, measured_y, dt) with
\* dt = ticks * 1e-10
KalmanFilterUpdate(f0, measured_x, measured_y, ticks) ==
    Let(f0, LAMBDA f :
        Let2([x |-> RAdd(f.x, RMul(f.vx, F(ticks))),
              y |-> RAdd(f.y, RMul(f.vy, F(ticks))),
              p_xx |-> RAdd(f.p_xx, ProcessNoise(f.p_vv, ticks)),
              p_yy |-> RAdd(f.p_yy, ProcessNoise(f.p_vv, ticks))],
             F(ticks + 1), LAMBDA predicted, dt_eps :
            Let2(RDiv(predicted.p_xx, RAdd(predicted.p_xx, F(50))),
                 RDiv(predicted.p_yy, RAdd(predicted.p_yy, F(50))), LAMBDA kx, ky :
                Let2(RSub(measured_x, predicted.x), RSub(measured_y, predicted.y),
                     LAMBDA dx, dy :
                    [x |-> RAdd(predicted.x, RMul(kx, dx)),
                     y |-> RAdd(predicted.y, RMul(ky, dy)),
                     vx |-> RDiv(dx, dt_eps),
                     vy |-> RDiv(dy, dt_eps),
                     p_xx |-> RMul(RSub(F(1), kx), predicted.p_xx),
                     p_yy |-> RMul(RSub(F(1), ky), predicted.p_yy),
                     p_vv |-> f.p_vv]))))

\* KalmanFilter::position
KalmanFilterPosition(f) == <<f.x, f.y>>

(***************************************************************************)
(* LocationSequence (results.rs): the methods that push, read and clear    *)
(***************************************************************************)
\* LocationSequence::new
SequenceNew == <<>>

\* self.results after push(result)
SequencePush(rs, result) == Append(rs, result)

\* LocationSequence::last
SequenceLast(rs) == IF rs = <<>> THEN None ELSE Some(rs[Len(rs)])

\* self.results after clear()
SequenceClear(rs) == <<>>

(***************************************************************************)
(* Beacon and BeaconSet (beacon.rs).  BeaconSet.beacons, a                 *)
(* HashMap<String, Beacon>, is a function from the ids it holds.           *)
(***************************************************************************)
\* Beacon::new
BeaconNew(id, name, x, y, z) == [id |-> id, name |-> name, x |-> x, y |-> y, z |-> z]

\* HashMap::insert(k, v)
MapInsert(map, k, v) == [j \in (DOMAIN map) \union {k} |-> IF j = k THEN v ELSE map[j]]

\* HashMap::remove(k), the map it leaves
MapRemove(map, k) == [j \in (DOMAIN map) \ {k} |-> map[j]]

\* HashMap::get(k)
MapGet(map, k) == IF k \in DOMAIN map THEN Some(map[k]) ELSE None

\* BeaconSet::new
BeaconSetNew == <<>>

\* add_beacon keeping the beacon the set already holds under the id
BeaconSetAddBeaconMutant(set, beacon) ==
    IF beacon.id \in DOMAIN set THEN set ELSE MapInsert(set, beacon.id, beacon)

\* self.beacons after add_beacon(beacon)
BeaconSetAddBeacon(set, beacon) == MapInsert(set, beacon.id, beacon)

\* self.beacons after add_beacons(list): the loop over the first k beacons
RECURSIVE BeaconSetAddBeaconsTo(_, _, _)
BeaconSetAddBeaconsTo(set, list, k) ==
    IF k = 0 THEN set ELSE BeaconSetAddBeacon(BeaconSetAddBeaconsTo(set, list, k - 1), list[k])

\* self.beacons after add_beacons(list)
BeaconSetAddBeacons(set, list) == BeaconSetAddBeaconsTo(set, list, Len(list))

\* BeaconSet::from_vec
BeaconSetFromVec(list) == BeaconSetAddBeaconsTo(BeaconSetNew, list, Len(list))

\* BeaconSet::get
BeaconSetGet(set, id) == MapGet(set, id)

\* self.beacons after remove(id); remove returns BeaconSetGet(set, id)
BeaconSetRemove(set, id) == MapRemove(set, id)

\* BeaconSet::len
BeaconSetLen(set) == Cardinality(DOMAIN set)

\* self.beacons after clear()
BeaconSetClear(set) == <<>>

\* self.beacons after *set.get_mut(id).unwrap() = beacon
GetMutAssign(set, id, beacon) == [set EXCEPT ![id] = beacon]

(***************************************************************************)
(* SignalMeasurement and SignalReadings (location_algorithms.rs).          *)
(* SignalReadings.measurements, a HashMap<String, i16>, is a function from *)
(* the ids it holds.                                                       *)
(***************************************************************************)
\* SignalMeasurement::new
SignalMeasurementNew(beacon_id, rssi) ==
    [beacon_id |-> beacon_id, rssi |-> rssi, timestamp |-> None]

\* SignalReadings::new
ReadingsNew == <<>>

\* add keeping the reading the snapshot already holds for the beacon
ReadingsAddMutant(map, beacon_id, rssi) ==
    IF beacon_id \in DOMAIN map THEN map ELSE MapInsert(map, beacon_id, rssi)

\* self.measurements after add(beacon_id, rssi)
ReadingsAdd(map, beacon_id, rssi) == MapInsert(map, beacon_id, rssi)

\* self.measurements after the first k pairs of add_multiple(pairs)
RECURSIVE ReadingsAddPairs(_, _, _)
ReadingsAddPairs(map, pairs, k) ==
    IF k = 0 THEN map
    ELSE ReadingsAdd(ReadingsAddPairs(map, pairs, k - 1), pairs[k][1], pairs[k][2])

\* self.measurements after add_multiple(pairs)
ReadingsAddMultiple(map, pairs) == ReadingsAddPairs(map, pairs, Len(pairs))

\* SignalReadings::from_pairs: the loop over the first k pairs; id.to_string()
\* keeps the characters of id
RECURSIVE ReadingsFromPairsTo(_, _)
ReadingsFromPairsTo(pairs, k) ==
    IF k = 0 THEN ReadingsNew
    ELSE ReadingsAdd(ReadingsFromPairsTo(pairs, k - 1), pairs[k][1], pairs[k][2])

\* SignalReadings::from_pairs
ReadingsFromPairs(pairs) == ReadingsFromPairsTo(pairs, Len(pairs))

\* SignalReadings::from_measurements: the loop over the first k measurements
RECURSIVE ReadingsFromMeasurementsTo(_, _)
ReadingsFromMeasurementsTo(ms, k) ==
    IF k = 0 THEN ReadingsNew
    ELSE ReadingsAdd(ReadingsFromMeasurementsTo(ms, k - 1), ms[k].beacon_id, ms[k].rssi)

\* SignalReadings::from_measurements
ReadingsFromMeasurements(ms) == ReadingsFromMeasurementsTo(ms, Len(ms))

\* SignalReadings::count
ReadingsCount(map) == Cardinality(DOMAIN map)

(***************************************************************************)
(* RSSIModel: the other constructors, validate and convert_to_unit         *)
(* (rssi_model.rs), and the legacy RSSIModel (positioning.rs), which has   *)
(* no unit and no model_type.                                              *)
(***************************************************************************)
\* DistanceUnit
Units == {"Meter", "Centimeter", "Millimeter"}

\* RSSIModel::log_distance
LogDistance(a, b, unit) ==
    [a |-> a, b |-> b, n |-> F(0), unit |-> unit, model_type |-> "log_distance"]

\* RSSIModel::log_normal_shadow
LogNormalShadow(a, n, unit) ==
    [a |-> a, b |-> RMul(F(-10), n), n |-> n, unit |-> unit,
     model_type |-> "log_normal_shadow"]

\* RSSIModel::custom
Custom(a, b, n, model_type, unit) ==
    [a |-> a, b |-> b, n |-> n, unit |-> unit, model_type |-> model_type]

\* RSSIModel::from_python_fit
FromPythonFit(a, b, n, unit) ==
    [a |-> a, b |-> b, n |-> n, unit |-> unit, model_type |-> "python_fit"]

\* RSSIModel::default
DefaultModel == LogDistance(F(-49), F(-40), "Centimeter")

\* positioning::RSSIModel::new
LegacyRSSIModelNew(a, b, n) == [a |-> a, b |-> b, n |-> n]

\* RSSIModel::rssi_to_distance_f64
RssiToDistanceF64(model, rssi) ==
    Let(RDiv(RSub(rssi, model.a), model.b), LAMBDA exponent :
        ConvertDistance(model, Pow10(exponent), "Meter"))

\* positioning::RSSIModel::rssi_to_distance
LegacyRssiToDistance(model, rssi) == Pow10(RDiv(RSub(F(rssi), model.a), model.b))

\* RSSIModel::convert_distance_from
ConvertDistanceFrom(model, distance) ==
    IF model.unit = "Meter" THEN distance
    ELSE IF model.unit = "Centimeter" THEN RDiv(distance, F(100))
    ELSE RDiv(distance, F(1000))

\* RSSIModel::convert_to_unit
ConvertToUnit(model, distance, target_unit) ==
    Let(ConvertDistanceFrom(model, distance), LAMBDA meters :
        IF target_unit = "Meter" THEN RMax(meters, F(0))
        ELSE IF target_unit = "Centimeter" THEN RMax(RMul(meters, F(100)), F(0))
        ELSE RMax(RMul(meters, F(1000)), F(0)))

\* Result<(), String>; the message of an Err is given by what it is about
Ok == [ok |-> TRUE]

Err(about) == [ok |-> FALSE, about |-> about]

\* validate testing the intercept before the slope
ValidateMutant(model) ==
    IF RGt(model.a, F(0)) THEN Err("intercept")
    ELSE IF RGe(model.b, F(0)) THEN Err("slope")
    ELSE Ok

\* RSSIModel::validate
Validate(model) ==
    IF RGe(model.b, F(0)) THEN Err("slope")
    ELSE IF RGt(model.a, F(0)) THEN Err("intercept")
    ELSE Ok

(***************************************************************************)
(* State.  A run of a pure operation fixes the inputs in its initial state *)
(* (op = "init") and applies one operation to them (a second call adds     *)
(* nothing).  A run of an object starts after its constructor (op is the   *)
(* constructor's name) and applies the object's methods in any order.      *)
(* meas is the entry list handed to the solvers; beacons, signals and      *)
(* rssi_model are the arguments of the estimators; signals is also the     *)
(* map of a SignalReadings object; results is the argument of              *)
(* fuse_results; sequence is LocationSequence.results; filter is a         *)
(* KalmanFilter1D and measurement the constant it is fed; beacon_set is    *)
(* BeaconSet.beacons; history is the list of the calls a filter, a beacon  *)
(* set or a SignalReadings has received, its constructor's first.          *)
(* The operation records its name in op, its further arguments in arg and  *)
(* its return value in ret.                                                *)
(***************************************************************************)
VARIABLES meas, beacons, signals, rssi_model, results, sequence, filter,
          measurement, beacon_set, history, op, arg, ret

vars == <<meas, beacons, signals, rssi_model, results, sequence, filter,
          measurement, beacon_set, history, op, arg, ret>>

\* what a pure operation leaves alone
inputs == <<meas, beacons, signals, rssi_model, results, sequence, filter,
            measurement, beacon_set, history>>

\* the entry of history for a call
Called(call, args) == [call |-> call, args |-> args]

\* no filter and no beacon set has been built, no call has been logged
NoObjects ==
    /\ filter = None
    /\ measurement = F(0)
    /\ beacon_set = <<>>
    /\ history = <<>>

Dists == 0..MaxDist

Entry(x, y, z, d) == [x |-> F(x), y |-> F(y), z |-> F(z), d |-> F(d)]

Lens == 0..MaxMeas

\* the list of k entries at xs, ys with distances ds
MeasList(k, xs, ys, ds) == [i \in 1..k |-> Entry(xs[i], ys[i], HeightStep * i, ds[i])]

\* signal strengths the solver weights are computed from
WeightRssi == {-40, -90}

WeightSeqs(k) == [1..k -> {SignalWeight(r) : r \in WeightRssi}]

WithWeights(m, w) ==
    [i \in 1..Len(m) |-> [x |-> m[i].x, y |-> m[i].y, z |-> m[i].z, d |-> m[i].d,
                          w |-> w[i]]]

\* the beacons of the floor: three around (1, 1) and one at it
Deployment ==
    <<[id |-> "B1", x |-> F(0), y |-> F(1), z |-> F(HeightStep)],
      [id |-> "B2", x |-> F(2), y |-> F(1), z |-> F(2 * HeightStep)],
      [id |-> "B3", x |-> F(1), y |-> F(0), z |-> F(3 * HeightStep)],
      [id |-> "B4", x |-> F(1), y |-> F(1), z |-> F(4 * HeightStep)]>>

\* the lists of k different beacons of the floor, as lists of their indices
BeaconLists(k) ==
    {s \in [1..k -> 1..Len(Deployment)] : \A i, j \in 1..k : i # j => s[i] # s[j]}

\* the signal strengths of a snapshot: 1 m and 10 m under TheModel
Readings == {-50, -70}

TheModel == FreeSpace(F(-50), "Meter")

\* the results handed to fuse_results and held by a sequence
Pool ==
    {LocationResultNew(F(0), F(0), F(0), F(1), F(0), "trilateration_basic", 3),
     LocationResultNew(F(10), F(4), F(2), Q(1, 2), F(3), "trilateration_weighted", 3),
     LocationResultNew(F(4), F(10), F(1), Q(1, 4), F(1), "trilateration_least_squares", 4)}

\* the weights handed to fuse_results
FuseWeights == {F(-1), F(0), Q(1, 2), F(1), F(2)}

\* the confidence arguments handed to LocationResult::new
ConfArgs == {F(-1), F(0), Q(1, 2), F(1), F(2), NaN, PosInf, NegInf}

NoCall ==
    /\ op = "init"
    /\ arg = <<>>
    /\ ret = None

InitSolve ==
    /\ \E k \in Lens :
         \E xs \in [1..k -> 0..MaxX], ys \in [1..k -> 0..MaxY], ds \in [1..k -> Dists] :
             meas = MeasList(k, xs, ys, ds)
    /\ beacons = <<>>
    /\ signals = <<>>
    /\ rssi_model = TheModel
    /\ results = <<>>
    /\ sequence = <<>>
    /\ NoObjects
    /\ NoCall

\* the first three anchors of a list with a fourth entry: a triangle and a line
Triples == {<<<<0, 0>>, <<2, 0>>, <<0, 1>>>>, <<<<0, 0>>, <<1, 0>>, <<2, 0>>>>}

\* a list of four entries: three anchors of Triples and any fourth entry
InitFourth ==
    /\ \E t \in Triples, x4 \in 0..MaxX, y4 \in 0..MaxY, ds \in [1..4 -> Dists] :
           meas = MeasList(4, <<t[1][1], t[2][1], t[3][1], x4>>,
                           <<t[1][2], t[2][2], t[3][2], y4>>, ds)
    /\ beacons = <<>>
    /\ signals = <<>>
    /\ rssi_model = TheModel
    /\ results = <<>>
    /\ sequence = <<>>
    /\ NoObjects
    /\ NoCall

\* distances on both sides of the 50 of the legacy weights
FarDists == {0, 1, 49, 50}

\* beacons_with_distances of three entries, near and far; the start of the
\* runs of SpecFar only: the other solvers leave 32 bits at these distances
InitFar ==
    /\ \E t \in Triples, ds \in [1..3 -> FarDists] :
           meas = MeasList(3, <<t[1][1], t[2][1], t[3][1]>>,
                           <<t[1][2], t[2][2], t[3][2]>>, ds)
    /\ beacons = <<>>
    /\ signals = <<>>
    /\ rssi_model = TheModel
    /\ results = <<>>
    /\ sequence = <<>>
    /\ NoObjects
    /\ NoCall

InitLocate ==
    /\ \E k \in 0..MaxBeacons :
         \E s \in BeaconLists(k) :
             /\ beacons = [i \in 1..k |-> Deployment[s[i]]]
             /\ \E heard \in SUBSET {Deployment[s[i]].id : i \in 1..k} :
                    signals \in [heard -> Readings]
    /\ meas = <<>>
    /\ rssi_model = TheModel
    /\ results = <<>>
    /\ sequence = <<>>
    /\ NoObjects
    /\ NoCall

\* the lowest i16 signal strength, and the one of 1 m
Extremes == {-32768, -50}

\* three beacons of the floor, each heard at an extreme signal strength
InitExtreme ==
    /\ \E s \in BeaconLists(3) :
           /\ beacons = [i \in 1..3 |-> Deployment[s[i]]]
           /\ signals \in [{Deployment[s[i]].id : i \in 1..3} -> Extremes]
    /\ meas = <<>>
    /\ rssi_model = TheModel
    /\ results = <<>>
    /\ sequence = <<>>
    /\ NoObjects
    /\ NoCall

InitFuse ==
    /\ \E k \in 0..MaxFuse : results \in [1..k -> Pool \X FuseWeights]
    /\ meas = <<>>
    /\ beacons = <<>>
    /\ signals = <<>>
    /\ rssi_model = TheModel
    /\ sequence = <<>>
    /\ NoObjects
    /\ NoCall

\* let mut sequence = LocationSequence::new()
InitSequence ==
    /\ sequence = SequenceNew
    /\ meas = <<>>
    /\ beacons = <<>>
    /\ signals = <<>>
    /\ rssi_model = TheModel
    /\ results = <<>>
    /\ NoObjects
    /\ op = "LocationSequence::new"
    /\ arg = <<>>
    /\ ret = None

InitResults == InitFuse \/ InitSequence

\* the process and measurement noise the filter is built with
KalmanQ == Q(1, 1000)

KalmanR == Q(1, 10)

\* the pairs <<c, v0>> of a constant measurement and an initial value v0 <= c
KalmanInputs ==
    {<<F(i[1]), F(i[2])>> :
        i \in {j \in {0, 5, 10} \X {-5, 0, 5, 10} : j[2] <= j[1] /\ j[1] - j[2] <= 10}}

\* let mut filter = KalmanFilter1D::new(q, r, v0)
InitKalman ==
    /\ \E in \in KalmanInputs :
           /\ measurement = in[1]
           /\ filter = Some(KalmanFilter1DNew(KalmanQ, KalmanR, in[2]))
           /\ arg = <<KalmanQ, KalmanR, in[2]>>
           /\ history = <<Called("KalmanFilter1D::new", arg)>>
    /\ meas = <<>>
    /\ beacons = <<>>
    /\ signals = <<>>
    /\ rssi_model = TheModel
    /\ results = <<>>
    /\ sequence = <<>>
    /\ beacon_set = <<>>
    /\ op = "KalmanFilter1D::new"
    /\ ret = None

\* the noise parameters and the initial values of a filter
FilterQ == {F(0), Q(1, 1000), F(10)}

FilterR == {Q(1, 10000), Q(1, 10)}

FilterValues == {F(0), F(5)}

\* the measurements a caller feeds
Feeds == {F(-5), F(0), F(10)}

\* KalmanFilter1D::new(q, r, initial_value), fed by its caller
InitFilter ==
    /\ \E q \in FilterQ, r \in FilterR, v \in FilterValues :
           /\ filter = Some(KalmanFilter1DNew(q, r, v))
           /\ arg = <<q, r, v>>
           /\ history = <<Called("KalmanFilter1D::new", arg)>>
    /\ measurement = F(0)
    /\ meas = <<>>
    /\ beacons = <<>>
    /\ signals = <<>>
    /\ rssi_model = TheModel
    /\ results = <<>>
    /\ sequence = <<>>
    /\ beacon_set = <<>>
    /\ op = "KalmanFilter1D::new"
    /\ ret = None

\* the initial positions of a 3D filter and the coordinates it is fed
Corners == {<<F(0), F(0), F(0)>>, <<F(0), F(5), F(5)>>}

Feeds3D == {F(0), F(10)}

\* KalmanFilter3D::new(q, r, initial_x, initial_y, initial_z)
InitFilter3D ==
    /\ \E q \in {Q(1, 1000), F(10)}, c \in Corners :
           /\ filter = Some(KalmanFilter3DNew(q, KalmanR, c[1], c[2], c[3]))
           /\ arg = <<q, KalmanR, c[1], c[2], c[3]>>
           /\ history = <<Called("KalmanFilter3D::new", arg)>>
    /\ measurement = F(0)
    /\ meas = <<>>
    /\ beacons = <<>>
    /\ signals = <<>>
    /\ rssi_model = TheModel
    /\ results = <<>>
    /\ sequence = <<>>
    /\ beacon_set = <<>>
    /\ op = "KalmanFilter3D::new"
    /\ ret = None

\* the positions a legacy filter starts at and is fed
Fixes == {<<F(0), F(0)>>, <<F(1), F(0)>>, <<F(1), F(2)>>}

\* positioning::KalmanFilter::new(x, y)
InitLegacyFilter ==
    /\ \E c \in {<<F(0), F(0)>>, <<F(1), F(1)>>} :
           /\ filter = Some(KalmanFilterNew(c[1], c[2]))
           /\ arg = c
           /\ history = <<Called("positioning::KalmanFilter::new", arg)>>
    /\ measurement = F(0)
    /\ meas = <<>>
    /\ beacons = <<>>
    /\ signals = <<>>
    /\ rssi_model = TheModel
    /\ results = <<>>
    /\ sequence = <<>>
    /\ beacon_set = <<>>
    /\ op = "positioning::KalmanFilter::new"
    /\ ret = None

\* the beacons handed to a beacon set: two for the id B1, one for B2
Anchors ==
    {BeaconNew("B1", "door", F(0), F(0), F(1)),
     BeaconNew("B1", "window", F(2), F(1), F(1)),
     BeaconNew("B2", "door", F(0), F(0), F(1))}

\* the ids asked for
Ids == {"B1", "B2", "B3"}

\* the lists of up to MaxList members of S
Lists(S) == UNION {[1..k -> S] : k \in 0..MaxList}

\* let mut beacon_set = BeaconSet::new()
InitBeaconSet ==
    /\ beacon_set = BeaconSetNew
    /\ history = <<Called("BeaconSet::new", <<>>)>>
    /\ filter = None
    /\ measurement = F(0)
    /\ meas = <<>>
    /\ beacons = <<>>
    /\ signals = <<>>
    /\ rssi_model = TheModel
    /\ results = <<>>
    /\ sequence = <<>>
    /\ op = "BeaconSet::new"
    /\ arg = <<>>
    /\ ret = None

\* the reports handed to a SignalReadings: two for the id B1, one for B2
Reports == {<<"B1", -50>>, <<"B1", -70>>, <<"B2", -50>>}

\* the same reports as SignalMeasurement values
Measurements == {SignalMeasurementNew(p[1], p[2]) : p \in Reports}

\* let mut signals = SignalReadings::new()
InitReadings ==
    /\ signals = ReadingsNew
    /\ history = <<Called("SignalReadings::new", <<>>)>>
    /\ filter = None
    /\ measurement = F(0)
    /\ beacon_set = <<>>
    /\ meas = <<>>
    /\ beacons = <<>>
    /\ rssi_model = TheModel
    /\ results = <<>>
    /\ sequence = <<>>
    /\ op = "SignalReadings::new"
    /\ arg = <<>>
    /\ ret = None

\* the intercepts, slopes and path-loss exponents models are built with
ParamA == {F(-50), F(0), F(10), NaN}

ParamB == {F(-20), F(0), F(20), NaN}

ParamN == {F(0), F(2)}

\* the constructors of the algorithms module's RSSIModel
ModelConstructors ==
    {"RSSIModel::log_distance", "RSSIModel::free_space", "RSSIModel::log_normal_shadow",
     "RSSIModel::custom", "RSSIModel::from_python_fit", "RSSIModel::default"}

\* the constructor of the legacy RSSIModel
LegacyConstructors == {"positioning::RSSIModel::new"}

\* rssi_model is built by the constructor op from the arguments arg
Built ==
    \E a \in ParamA, b \in ParamB, n \in ParamN, unit \in Units :
        \/ /\ op = "RSSIModel::log_distance"
           /\ arg = <<a, b, unit>>
           /\ rssi_model = LogDistance(a, b, unit)
        \/ /\ op = "RSSIModel::free_space"
           /\ arg = <<a, unit>>
           /\ rssi_model = FreeSpace(a, unit)
        \/ /\ op = "RSSIModel::log_normal_shadow"
           /\ arg = <<a, n, unit>>
           /\ rssi_model = LogNormalShadow(a, n, unit)
        \/ /\ op = "RSSIModel::custom"
           /\ arg = <<a, b, n, "custom", unit>>
           /\ rssi_model = Custom(a, b, n, "custom", unit)
        \/ /\ op = "RSSIModel::from_python_fit"
           /\ arg = <<a, b, n, unit>>
           /\ rssi_model = FromPythonFit(a, b, n, unit)
        \/ /\ op = "RSSIModel::default"
           /\ arg = <<>>
           /\ rssi_model = DefaultModel
        \/ /\ op = "positioning::RSSIModel::new"
           /\ arg = <<a, b, n>>
           /\ rssi_model = LegacyRSSIModelNew(a, b, n)

\* let rssi_model = one of the constructors
InitModel ==
    /\ Built
    /\ meas = <<>>
    /\ beacons = <<>>
    /\ signals = <<>>
    /\ results = <<>>
    /\ sequence = <<>>
    /\ NoObjects
    /\ ret = None

Init ==
    \/ InitFourth
    \/ InitModel
    \/ InitSolve
    \/ InitLocate
    \/ InitResults
    \/ InitKalman
    \/ InitFilter
    \/ InitLegacyFilter
    \/ InitExtreme
    \/ InitFilter3D
    \/ InitBeaconSet
    \/ InitReadings

\* _trilateration_basic_impl(&meas)
BasicImpl ==
    /\ op = "init"
    /\ op' = "_trilateration_basic_impl"
    /\ arg' = <<>>
    /\ ret' = TrilaterationBasicImpl(meas)
    /\ UNCHANGED inputs

\* _trilateration_weighted_impl on meas with the weights w
WeightedImpl ==
    \E w \in WeightSeqs(Len(meas)) :
        /\ op = "init"
        /\ op' = "_trilateration_weighted_impl"
        /\ arg' = w
        /\ ret' = Let(WithWeights(meas, w), LAMBDA m : TrilaterationWeightedImpl(m))
        /\ UNCHANGED inputs

\* the decimal exponents of small weights: the weights are w * 10^-e
WeightExps == {0, 6}

\* _trilateration_weighted_impl on meas with the weights w * 10^-e
WeightedImplAt ==
    \E w \in WeightSeqs(Len(meas)), e \in WeightExps :
        /\ op = "init"
        /\ op' = "_trilateration_weighted_impl, small weights"
        /\ arg' = <<w, e>>
        /\ ret' = Let(WithWeights(meas, w), LAMBDA m : TrilaterationWeightedImplAt(m, e))
        /\ UNCHANGED inputs

\* _trilateration_least_squares_impl(&meas)
LeastSquaresImpl ==
    /\ op = "init"
    /\ op' = "_trilateration_least_squares_impl"
    /\ arg' = <<>>
    /\ ret' = TrilaterationLeastSquaresImpl(meas)
    /\ UNCHANGED inputs

\* positioning::trilateration_basic(&meas)
LegacyBasic ==
    /\ op = "init"
    /\ op' = "legacy_basic"
    /\ arg' = <<>>
    /\ ret' = LegacyTrilaterationBasic(meas)
    /\ UNCHANGED inputs

\* positioning::trilateration_weighted(&meas)
LegacyWeighted ==
    /\ op = "init"
    /\ op' = "legacy_weighted"
    /\ arg' = <<>>
    /\ ret' = LegacyTrilaterationWeighted(meas)
    /\ UNCHANGED inputs

\* positioning::trilateration_least_squares(&meas)
LegacyLeastSquares ==
    /\ op = "init"
    /\ op' = "legacy_least_squares"
    /\ arg' = <<>>
    /\ ret' = LegacyTrilaterationLeastSquares(meas)
    /\ UNCHANGED inputs

\* LocationAlgorithm::trilateration_basic(&beacons, &signals, &rssi_model)
Basic ==
    /\ op = "init"
    /\ op' = "trilateration_basic"
    /\ arg' = <<>>
    /\ ret' = TrilaterationBasic(beacons, signals, rssi_model)
    /\ UNCHANGED inputs

\* LocationAlgorithm::trilateration_weighted(&beacons, &signals, &rssi_model)
Weighted ==
    /\ op = "init"
    /\ op' = "trilateration_weighted"
    /\ arg' = <<>>
    /\ ret' = TrilaterationWeighted(beacons, signals, rssi_model)
    /\ UNCHANGED inputs

\* LocationAlgorithm::trilateration_weighted(&beacons, &signals, &rssi_model)
\* in a build with overflow checks, when -rssi overflows: the call panics
WeightedPanics ==
    /\ op = "init"
    /\ \E i \in DOMAIN Weighed(beacons, signals) :
           NegOverflows(signals[Weighed(beacons, signals)[i].id])
    /\ op' = "trilateration_weighted: panic"
    /\ arg' = <<>>
    /\ ret' = None
    /\ UNCHANGED inputs

\* LocationAlgorithm::trilateration_least_squares(&beacons, &signals, &rssi_model)
LeastSquares ==
    /\ op = "init"
    /\ op' = "trilateration_least_squares"
    /\ arg' = <<>>
    /\ ret' = TrilaterationLeastSquares(beacons, signals, rssi_model)
    /\ UNCHANGED inputs

\* LocationAlgorithm::fuse_results(&results)
Fuse ==
    /\ op = "init"
    /\ op' = "fuse_results"
    /\ arg' = <<>>
    /\ ret' = FuseResults(results)
    /\ UNCHANGED inputs

\* LocationResult::new with the confidence argument confidence
New ==
    \E confidence \in ConfArgs :
        /\ op = "init"
        /\ op' = "new"
        /\ arg' = <<confidence>>
        /\ ret' = Some(LocationResultNew(F(0), F(0), F(0), confidence, F(0), "new", 0))
        /\ UNCHANGED inputs

\* the calls of a run on a sequence
SequenceOps ==
    {"LocationSequence::new", "LocationSequence::push",
     "LocationSequence::last", "LocationSequence::len",
     "LocationSequence::clear", "average_position", "average_last_n"}

\* sequence.push(result)
Push ==
    \E result \in Pool :
        /\ op \in SequenceOps
        /\ Len(sequence) < MaxSeq
        /\ op' = "LocationSequence::push"
        /\ arg' = <<result>>
        /\ sequence' = SequencePush(sequence, result)
        /\ ret' = None
        /\ UNCHANGED <<meas, beacons, signals, rssi_model, results, filter,
                       measurement, beacon_set, history>>

\* sequence.last()
Last ==
    /\ op \in SequenceOps
    /\ op' = "LocationSequence::last"
    /\ arg' = <<>>
    /\ ret' = SequenceLast(sequence)
    /\ UNCHANGED inputs

\* sequence.len()
SeqLen ==
    /\ op \in SequenceOps
    /\ op' = "LocationSequence::len"
    /\ arg' = <<>>
    /\ ret' = Some(Len(sequence))
    /\ UNCHANGED inputs

\* sequence.clear()
Clear ==
    /\ op \in SequenceOps
    /\ op' = "LocationSequence::clear"
    /\ arg' = <<>>
    /\ sequence' = SequenceClear(sequence)
    /\ ret' = None
    /\ UNCHANGED <<meas, beacons, signals, rssi_model, results, filter,
                   measurement, beacon_set, history>>

\* sequence.average_position()
Average ==
    /\ op \in SequenceOps
    /\ op' = "average_position"
    /\ arg' = <<>>
    /\ ret' = AveragePosition(sequence)
    /\ UNCHANGED inputs

\* sequence.average_last_n(n)
AverageLast ==
    \E n \in 0..(MaxSeq + 1) :
        /\ op \in SequenceOps
        /\ op' = "average_last_n"
        /\ arg' = <<n>>
        /\ ret' = AverageLastN(sequence, n)
        /\ UNCHANGED inputs

\* the calls of a run on a filter
KalmanOps == {"KalmanFilter1D::new", "KalmanFilter1D::update"}

\* the number of updates the filter has received
Updates == Len(history) - 1

\* filter.update(measurement)
Update ==
    /\ op \in KalmanOps
    /\ Updates < MaxUpdates
    /\ op' = "KalmanFilter1D::update"
    /\ arg' = <<measurement>>
    /\ filter' = Some(KalmanUpdate(filter[1], measurement))
    /\ ret' = Some(filter'[1].value)
    /\ history' = Append(history, Called("KalmanFilter1D::update", arg'))
    /\ UNCHANGED <<meas, beacons, signals, rssi_model, results, sequence,
                   measurement, beacon_set>>

\* filter.update(m), any measurement m
Feed ==
    /\ op \in KalmanOps
    /\ Updates < MaxFeeds
    /\ \E m \in Feeds :
           /\ arg' = <<m>>
           /\ filter' = Some(KalmanUpdate(filter[1], m))
    /\ op' = "KalmanFilter1D::update"
    /\ ret' = Some(filter'[1].value)
    /\ history' = Append(history, Called("KalmanFilter1D::update", arg'))
    /\ UNCHANGED <<meas, beacons, signals, rssi_model, results, sequence,
                   measurement, beacon_set>>

\* the calls of a run on a 3D filter
Filter3DOps == {"KalmanFilter3D::new", "KalmanFilter3D::update", "KalmanFilter3D::state"}

\* filter.update(x, y, z)
Update3D ==
    /\ op \in Filter3DOps
    /\ Updates < MaxFeeds
    /\ \E x \in Feeds3D, y \in Feeds3D, z \in Feeds3D :
           /\ arg' = <<x, y, z>>
           /\ filter' = Some(KalmanFilter3DUpdate(filter[1], x, y, z))
    /\ op' = "KalmanFilter3D::update"
    /\ ret' = Some(KalmanFilter3DState(filter'[1]))
    /\ history' = Append(history, Called("KalmanFilter3D::update", arg'))
    /\ UNCHANGED <<meas, beacons, signals, rssi_model, results, sequence,
                   measurement, beacon_set>>

\* filter.state()
State3D ==
    /\ op \in Filter3DOps
    /\ op' = "KalmanFilter3D::state"
    /\ arg' = <<>>
    /\ ret' = Some(KalmanFilter3DState(filter[1]))
    /\ UNCHANGED inputs

\* the calls of a run on a legacy filter
LegacyFilterOps ==
    {"positioning::KalmanFilter::new", "positioning::KalmanFilter::update",
     "positioning::KalmanFilter::position"}

\* filter.update(measured_x, measured_y, dt), dt = ticks * 1e-10
LegacyUpdate ==
    /\ op \in LegacyFilterOps
    /\ Updates < MaxFeeds
    /\ \E m \in Fixes, ticks \in 0..MaxTicks :
           /\ arg' = <<m[1], m[2], ticks>>
           /\ filter' = Some(KalmanFilterUpdate(filter[1], m[1], m[2], ticks))
    /\ op' = "positioning::KalmanFilter::update"
    /\ ret' = None
    /\ history' = Append(history, Called("positioning::KalmanFilter::update", arg'))
    /\ UNCHANGED <<meas, beacons, signals, rssi_model, results, sequence,
                   measurement, beacon_set>>

\* filter.position()
LegacyPosition ==
    /\ op \in LegacyFilterOps
    /\ op' = "positioning::KalmanFilter::position"
    /\ arg' = <<>>
    /\ ret' = Some(KalmanFilterPosition(filter[1]))
    /\ UNCHANGED inputs

\* the calls of a run on a beacon set
BeaconSetOps ==
    {"BeaconSet::new", "BeaconSet::from_vec", "BeaconSet::add_beacon",
     "BeaconSet::add_beacons", "BeaconSet::get", "BeaconSet::get_mut",
     "BeaconSet::remove", "BeaconSet::len", "BeaconSet::clear"}

\* a beacon set may receive one more changing call
MayChange == Len(history) <= MaxCalls

\* what a call on a beacon set leaves alone
BeaconSetFrame ==
    UNCHANGED <<meas, beacons, signals, rssi_model, results, sequence, filter, measurement>>

\* beacon_set = BeaconSet::from_vec(list)
FromVec ==
    \E list \in Lists(Anchors) :
        /\ op \in BeaconSetOps
        /\ op' = "BeaconSet::from_vec"
        /\ arg' = <<list>>
        /\ beacon_set' = BeaconSetFromVec(list)
        /\ ret' = None
        /\ history' = <<Called(op', arg')>>
        /\ BeaconSetFrame

\* beacon_set.add_beacon(beacon)
AddBeacon ==
    \E beacon \in Anchors :
        /\ op \in BeaconSetOps
        /\ MayChange
        /\ op' = "BeaconSet::add_beacon"
        /\ arg' = <<beacon>>
        /\ beacon_set' = BeaconSetAddBeacon(beacon_set, beacon)
        /\ ret' = None
        /\ history' = Append(history, Called(op', arg'))
        /\ BeaconSetFrame

\* beacon_set.add_beacons(list)
AddBeacons ==
    \E list \in Lists(Anchors) :
        /\ op \in BeaconSetOps
        /\ MayChange
        /\ op' = "BeaconSet::add_beacons"
        /\ arg' = <<list>>
        /\ beacon_set' = BeaconSetAddBeacons(beacon_set, list)
        /\ ret' = None
        /\ history' = Append(history, Called(op', arg'))
        /\ BeaconSetFrame

\* beacon_set.remove(id)
RemoveBeacon ==
    \E id \in Ids :
        /\ op \in BeaconSetOps
        /\ MayChange
        /\ op' = "BeaconSet::remove"
        /\ arg' = <<id>>
        /\ beacon_set' = BeaconSetRemove(beacon_set, id)
        /\ ret' = BeaconSetGet(beacon_set, id)
        /\ history' = Append(history, Called(op', arg'))
        /\ BeaconSetFrame

\* beacon_set.clear()
ClearBeacons ==
    /\ op \in BeaconSetOps
    /\ MayChange
    /\ op' = "BeaconSet::clear"
    /\ arg' = <<>>
    /\ beacon_set' = BeaconSetClear(beacon_set)
    /\ ret' = None
    /\ history' = Append(history, Called(op', arg'))
    /\ BeaconSetFrame

\* beacon_set.get(id)
GetBeacon ==
    \E id \in Ids :
        /\ op \in BeaconSetOps
        /\ op' = "BeaconSet::get"
        /\ arg' = <<id>>
        /\ ret' = BeaconSetGet(beacon_set, id)
        /\ UNCHANGED inputs

\* beacon_set.len()
LenBeacons ==
    /\ op \in BeaconSetOps
    /\ op' = "BeaconSet::len"
    /\ arg' = <<>>
    /\ ret' = Some(BeaconSetLen(beacon_set))
    /\ UNCHANGED inputs

\* *beacon_set.get_mut(id).unwrap() = beacon: the caller writes the fields,
\* all of them public, through the reference get_mut hands out
GetMut ==
    \E id \in DOMAIN beacon_set, beacon \in Anchors :
        /\ op \in BeaconSetOps
        /\ MayChange
        /\ op' = "BeaconSet::get_mut"
        /\ arg' = <<id, beacon>>
        /\ beacon_set' = GetMutAssign(beacon_set, id, beacon)
        /\ ret' = Some(beacon)
        /\ history' = Append(history, Called(op', arg'))
        /\ BeaconSetFrame

\* the calls of a run on a SignalReadings
ReadingsOps ==
    {"SignalReadings::new", "SignalReadings::from_pairs",
     "SignalReadings::from_measurements", "SignalReadings::add",
     "SignalReadings::add_multiple", "SignalReadings::get",
     "SignalReadings::count"}

\* what a call on a SignalReadings leaves alone
ReadingsFrame ==
    UNCHANGED <<meas, beacons, rssi_model, results, sequence, filter, measurement,
                beacon_set>>

\* signals = SignalReadings::from_pairs(pairs)
FromPairs ==
    \E pairs \in Lists(Reports) :
        /\ op \in ReadingsOps
        /\ op' = "SignalReadings::from_pairs"
        /\ arg' = <<pairs>>
        /\ signals' = ReadingsFromPairs(pairs)
        /\ ret' = None
        /\ history' = <<Called(op', arg')>>
        /\ ReadingsFrame

\* signals = SignalReadings::from_measurements(measurements)
FromMeasurements ==
    \E measurements \in Lists(Measurements) :
        /\ op \in ReadingsOps
        /\ op' = "SignalReadings::from_measurements"
        /\ arg' = <<measurements>>
        /\ signals' = ReadingsFromMeasurements(measurements)
        /\ ret' = None
        /\ history' = <<Called(op', arg')>>
        /\ ReadingsFrame

\* signals.add(beacon_id, rssi)
AddReading ==
    \E report \in Reports :
        /\ op \in ReadingsOps
        /\ MayChange
        /\ op' = "SignalReadings::add"
        /\ arg' = report
        /\ signals' = ReadingsAdd(signals, report[1], report[2])
        /\ ret' = None
        /\ history' = Append(history, Called(op', arg'))
        /\ ReadingsFrame

\* signals.add_multiple(pairs)
AddMultiple ==
    \E pairs \in Lists(Reports) :
        /\ op \in ReadingsOps
        /\ MayChange
        /\ op' = "SignalReadings::add_multiple"
        /\ arg' = <<pairs>>
        /\ signals' = ReadingsAddMultiple(signals, pairs)
        /\ ret' = None
        /\ history' = Append(history, Called(op', arg'))
        /\ ReadingsFrame

\* signals.get(beacon_id)
GetReading ==
    \E beacon_id \in Ids :
        /\ op \in ReadingsOps
        /\ op' = "SignalReadings::get"
        /\ arg' = <<beacon_id>>
        /\ ret' = SignalsGet(signals, beacon_id)
        /\ UNCHANGED inputs

\* signals.count()
CountReadings ==
    /\ op \in ReadingsOps
    /\ op' = "SignalReadings::count"
    /\ arg' = <<>>
    /\ ret' = Some(ReadingsCount(signals))
    /\ UNCHANGED inputs

\* the distances handed to convert_to_unit
ConvertArgs == {F(-100), F(0), F(1), F(100)}

\* the signal strengths handed to the models
ModelRssi == {-50, -70}

\* rssi_model.validate()
CheckModel ==
    /\ op \in ModelConstructors
    /\ op' = "validate"
    /\ arg' = <<>>
    /\ ret' = Some(Validate(rssi_model))
    /\ UNCHANGED inputs

\* rssi_model.convert_to_unit(distance, target_unit)
Convert ==
    \E distance \in ConvertArgs, target_unit \in Units :
        /\ op \in ModelConstructors
        /\ op' = "convert_to_unit"
        /\ arg' = <<distance, target_unit>>
        /\ ret' = Some(ConvertToUnit(rssi_model, distance, target_unit))
        /\ UNCHANGED inputs

\* rssi_model.rssi_to_distance(rssi)
Distance ==
    \E rssi \in ModelRssi :
        /\ op \in ModelConstructors
        /\ op' = "rssi_to_distance"
        /\ arg' = <<rssi>>
        /\ ret' = Some(RssiToDistance(rssi_model, rssi))
        /\ UNCHANGED inputs

\* rssi_model.rssi_to_distance_f64(rssi)
DistanceF64 ==
    \E rssi \in ModelRssi :
        /\ op \in ModelConstructors
        /\ op' = "rssi_to_distance_f64"
        /\ arg' = <<F(rssi)>>
        /\ ret' = Some(RssiToDistanceF64(rssi_model, F(rssi)))
        /\ UNCHANGED inputs

\* the legacy rssi_model.rssi_to_distance(rssi)
LegacyDistance ==
    \E rssi \in ModelRssi :
        /\ op \in LegacyConstructors
        /\ op' = "positioning::rssi_to_distance"
        /\ arg' = <<rssi>>
        /\ ret' = Some(LegacyRssiToDistance(rssi_model, rssi))
        /\ UNCHANGED inputs

NextSolve ==
    \/ BasicImpl
    \/ WeightedImpl
    \/ LeastSquaresImpl
    \/ LegacyBasic
    \/ LegacyWeighted
    \/ LegacyLeastSquares

NextLocate ==
    \/ Basic
    \/ Weighted
    \/ LeastSquares

NextSequence ==
    \/ Push
    \/ Last
    \/ SeqLen
    \/ Clear
    \/ Average
    \/ AverageLast

NextResults ==
    \/ Fuse
    \/ New
    \/ NextSequence

NextKalman == Update

NextLegacyFilter ==
    \/ LegacyUpdate
    \/ LegacyPosition

NextFilter3D ==
    \/ Update3D
    \/ State3D

\* the calls that build and change a beacon set, and the ones that read it
NextBeaconSet ==
    \/ FromVec
    \/ AddBeacon
    \/ AddBeacons
    \/ RemoveBeacon
    \/ ClearBeacons
    \/ GetBeacon
    \/ LenBeacons

NextReadings ==
    \/ FromPairs
    \/ FromMeasurements
    \/ AddReading
    \/ AddMultiple
    \/ GetReading
    \/ CountReadings

NextModel ==
    \/ CheckModel
    \/ Convert
    \/ Distance
    \/ DistanceF64
    \/ LegacyDistance

Next ==
    \/ NextModel
    \/ NextReadings
    \/ NextSolve
    \/ NextLocate
    \/ NextResults
    \/ WeightedImplAt
    \/ WeightedPanics
    \/ NextKalman
    \/ Feed
    \/ NextFilter3D
    \/ NextLegacyFilter
    \/ NextBeaconSet
    \/ GetMut

SpecSolve == InitSolve /\ [][NextSolve]_vars

SpecLocate == InitLocate /\ [][NextLocate]_vars

SpecResults == InitResults /\ [][NextResults]_vars

SpecSequence == InitSequence /\ [][NextSequence]_vars

SpecBeaconSet == InitBeaconSet /\ [][NextBeaconSet]_vars

SpecBeaconSetMut == InitBeaconSet /\ [][NextBeaconSet \/ GetMut]_vars

SpecReadings == InitReadings /\ [][NextReadings]_vars

SpecModel == InitModel /\ [][NextModel]_vars

SpecFirstThree == (InitFourth \/ InitLocate) /\ [][LegacyBasic \/ Basic]_vars

SpecFourth == InitFourth /\ [][NextSolve]_vars

SpecFilter == InitFilter /\ [][Feed]_vars

SpecFilter3D == InitFilter3D /\ [][NextFilter3D]_vars

SpecWeights == InitSolve /\ [][WeightedImpl \/ LegacyWeighted \/ WeightedImplAt]_vars

SpecExtreme == InitExtreme /\ [][Weighted \/ WeightedPanics]_vars

SpecFar == InitFar /\ [][LegacyWeighted]_vars

SpecLegacyFilter == InitLegacyFilter /\ [][NextLegacyFilter]_vars

SpecKalman == InitKalman /\ [][NextKalman]_vars

Spec == Init /\ [][Next]_vars

(***************************************************************************)
(* Properties                                                              *)
(***************************************************************************)
\* the value returned by the call of a state that has returned Some
Result == ret[1]

\* a, b, c lie on one line of the x,y plane (two of them may coincide)
Collinear(a, b, c) ==
    RSub(RMul(RSub(b.x, a.x), RSub(c.y, a.y)),
         RMul(RSub(b.y, a.y), RSub(c.x, a.x))) = F(0)

\* the points a true position is taken from
TruePoints == ((0 - MaxDist)..(MaxX + MaxDist)) \X ((0 - MaxDist)..(MaxY + MaxDist))

\* the distance of entry m is the exact planar distance from its anchor to p
ExactDistance(m, p) ==
    /\ RGe(m.d, F(0))
    /\ RMul(m.d, m.d) = RAdd(RMul(RSub(F(p[1]), m.x), RSub(F(p[1]), m.x)),
                             RMul(RSub(F(p[2]), m.y), RSub(F(p[2]), m.y)))

\* the three entries of meas carry the exact distances to p
ExactAt(p) == \A i \in 1..3 : ExactDistance(meas[i], p)

ExactSolveOps == {"_trilateration_basic_impl", "legacy_basic"}

WeightedSolveOps == {"_trilateration_weighted_impl", "legacy_weighted"}

LeastSquaresOps == {"_trilateration_least_squares_impl", "legacy_least_squares"}

EstimatorOps == {"trilateration_basic", "trilateration_weighted", "trilateration_least_squares"}

AlgorithmsOps ==
    EstimatorOps \union
    {"_trilateration_basic_impl", "_trilateration_weighted_impl",
     "_trilateration_least_squares_impl", "fuse_results", "new", "average_position",
     "average_last_n"}

C3_TooFewGivesNone ==
    /\ (/\ op \in ExactSolveOps \union WeightedSolveOps \union LeastSquaresOps
        /\ Len(meas) < 3) => ret = None
    /\ (/\ op \in EstimatorOps
        /\ Len(WithReading(beacons, signals)) < 3) => ret = None

\* C3 witness: least squares was handed four beacons of which two have a
\* reading, and returned None.
C3_Witness ==
    /\ op = "trilateration_least_squares"
    /\ Len(beacons) = 4
    /\ Len(WithReading(beacons, signals)) = 2
    /\ ret = None

\* the first three listed beacons that have a reading
FirstHeard == Take(WithReading(beacons, signals), 3)

\* the entries the first three beacons with a reading stand for
FirstHeardEntries ==
    [i \in 1..Len(FirstHeard) |->
        [x |-> FirstHeard[i].x, y |-> FirstHeard[i].y, z |-> FirstHeard[i].z,
         d |-> RssiToDistance(rssi_model, signals[FirstHeard[i].id]),
         w |-> SignalWeight(signals[FirstHeard[i].id])]]

\* C4: when at least three listed beacons have a reading and the first three
\* of them are not collinear, trilateration_basic and trilateration_weighted
\* return the solve of those three: a beacon without a reading is skipped.
C4_SkipsBeaconsWithoutReading ==
    (/\ op \in {"trilateration_basic", "trilateration_weighted"}
     /\ Len(WithReading(beacons, signals)) >= 3
     /\ ~Collinear(FirstHeard[1], FirstHeard[2], FirstHeard[3]))
    => /\ ret # None
       /\ op = "trilateration_basic"
              => ret = TrilaterationBasicImpl(Map(FirstHeardEntries, Unweighted))
       /\ op = "trilateration_weighted"
              => ret = TrilaterationWeightedImpl(FirstHeardEntries)

\* C5: trilateration_least_squares returns a result for every input of at
\* least three entries, collinear anchors included.
C5_LeastSquaresAlwaysAnswers ==
    (op \in LeastSquaresOps /\ Len(meas) >= 3) => ret # None

\* C6: every LocationResult the algorithms module produces has
\* 0 <= confidence <= 1.
C6_ConfidenceInUnitInterval ==
    (op \in AlgorithmsOps /\ ret # None)
    => RLe(F(0), Result.confidence) /\ RLe(Result.confidence, F(1))

\* C6 witness: LocationResult::new was handed the confidence 2 and holds 1.
C6_Witness ==
    /\ op = "new"
    /\ arg = <<F(2)>>
    /\ ret # None
    /\ Result.confidence = F(1)

\* C7: every result of a trilateration variant, of fuse_results and of the
\* sequence averages has error >= 0 (the inputs' errors are >= 0, the fusion
\* weights have a non-zero sum).
C7_ErrorNonNegative ==
    (op \in AlgorithmsOps \ {"new"} /\ ret # None) => RGe(Result.error, F(0))

\* the total of the fusion weights
TotalWeight == RSum([i \in 1..Len(results) |-> results[i][2]])

\* the sum of weight * value over the fusion inputs
WeightedSum(Field(_)) ==
    RSum([i \in 1..Len(results) |-> RMul(results[i][2], Field(results[i][1]))])

\* C8: for a non-empty list with total weight W # 0, the fused x, y, z and
\* error times W are the sums of weight * value; two results of equal weight
\* fuse to their midpoint, one result fuses to itself.
C8_FusedIsWeightedMean ==
    (op = "fuse_results" /\ results # <<>> /\ TotalWeight # F(0))
    => /\ ret # None
       /\ RMul(Result.x, TotalWeight) = WeightedSum(LAMBDA r : r.x)
       /\ RMul(Result.y, TotalWeight) = WeightedSum(LAMBDA r : r.y)
       /\ RMul(Result.z, TotalWeight) = WeightedSum(LAMBDA r : r.z)
       /\ RMul(Result.error, TotalWeight) = WeightedSum(LAMBDA r : r.error)
       /\ (Len(results) = 2 /\ results[1][2] = results[2][2])
              => /\ RMul(F(2), Result.x) = RAdd(results[1][1].x, results[2][1].x)
                 /\ RMul(F(2), Result.y) = RAdd(results[1][1].y, results[2][1].y)
                 /\ RMul(F(2), Result.z) = RAdd(results[1][1].z, results[2][1].z)
       /\ Len(results) = 1
              => /\ Result.x = results[1][1].x
                 /\ Result.y = results[1][1].y
                 /\ Result.z = results[1][1].z

\* C8 witness: x = 0 and x = 10, each with weight 1/2, have fused to x = 5.
C8_Witness ==
    /\ op = "fuse_results"
    /\ Len(results) = 2
    /\ results[1][1].x = F(0)
    /\ results[2][1].x = F(10)
    /\ results[1][2] = Q(1, 2)
    /\ results[2][2] = Q(1, 2)
    /\ ret # None
    /\ Result.x = F(5)

\* C9: fuse_results returns None exactly when the list is empty or the
\* weights sum to zero; what it returns otherwise is finite.
C9_NoneIffEmptyOrZeroWeight ==
    op = "fuse_results"
    => /\ ret = None <=> (results = <<>> \/ TotalWeight = F(0))
       /\ ret # None => IsFinite(Result.x) /\ IsFinite(Result.error)

\* C9 witness: the weights -1 and 1 cancel, and fuse_results returned None.
C9_Witness ==
    /\ op = "fuse_results"
    /\ Len(results) = 2
    /\ results[1][2] = F(-1)
    /\ results[2][2] = F(1)
    /\ ret = None

\* C10: the fused result carries the largest beacon_count of the inputs and
\* the method tag "fused".
C10_FusedCountIsMax ==
    (op = "fuse_results" /\ ret # None)
    => /\ Result.method = "fused"
       /\ \A i \in 1..Len(results) : Result.beacon_count >= results[i][1].beacon_count
       /\ \E i \in 1..Len(results) : Result.beacon_count = results[i][1].beacon_count

\* C10 witness: inputs with beacon_count 3 and 4 have fused to beacon_count 4.
C10_Witness ==
    /\ op = "fuse_results"
    /\ Len(results) = 2
    /\ results[1][1].beacon_count = 3
    /\ results[2][1].beacon_count = 4
    /\ ret # None
    /\ Result.beacon_count = 4
    /\ Result.method = "fused"


(***************************************************************************)
(* KalmanFilter1D fed a constant                                           *)
(***************************************************************************)
\* the initial value the filter of the run was built with
InitialValue == history[1].args[3]

\* |measurement - estimate| <= 0.05
WithinTolerance == RLe(RAbs(RSub(measurement, filter[1].value)), Q(5, 100))

\* an update does not lower the estimate
EstimateRises == [][op' = "KalmanFilter1D::update" => RGe(filter'[1].value, filter[1].value)]_vars

\* the estimate is at most the constant fed
EstimateBelowMeasurement == op \in KalmanOps => RLe(filter[1].value, measurement)

\* fed 10.0 from 0.0, the estimate is within 0.05 from the 50th update on
EstimateConverges ==
    (op = "KalmanFilter1D::update" /\ measurement = F(10) /\ InitialValue = F(0) /\ Updates >= 50)
        => WithinTolerance

\* C11: fed a constant c >= v0, a filter built with q = 0.001, r = 0.1 and
\* initial value v0 returns estimates that never decrease and never exceed c;
\* for c = 10.0 and v0 = 0.0 the estimate is within 0.05 of c after 50 updates
\* and after every later one.
C11_ConstantFeedConverges ==
    /\ EstimateRises
    /\ [](EstimateBelowMeasurement /\ EstimateConverges)

\* the filter built from 0.0 has been fed 10.0 fifty times; its estimate has
\* risen and is within 0.05 of 10.0
C11_Witness ==
    /\ op = "KalmanFilter1D::update"
    /\ measurement = F(10)
    /\ InitialValue = F(0)
    /\ Updates = 50
    /\ RGt(filter[1].value, F(0))
    /\ WithinTolerance

(***************************************************************************)
(* LocationSequence                                                        *)
(***************************************************************************)
\* s is the beginning of t
IsPrefix(s, t) == Len(s) <= Len(t) /\ \A i \in 1..Len(s) : t[i] = s[i]

\* C12: a LocationSequence is append-only: no public operation shortens the
\* results or changes an earlier entry, push appends exactly its argument and
\* last returns the entry pushed last.
C12_AppendOnly ==
    [][/\ IsPrefix(sequence, sequence')
       /\ op' = "LocationSequence::push" => sequence' = Append(sequence, arg'[1])
       /\ (op' = "LocationSequence::last" /\ sequence # <<>>) => ret' = Some(sequence[Len(sequence)])]_vars

\* r and s agree in x, y, z, confidence, error and beacon_count
SameEstimate(r, s) ==
    /\ r.x = s.x
    /\ r.y = s.y
    /\ r.z = s.z
    /\ r.confidence = s.confidence
    /\ r.error = s.error
    /\ r.beacon_count = s.beacon_count

\* C13: on a non-empty history, average_last_n(n) with n >= len() returns
\* what average_position() returns, in x, y, z, confidence, error and
\* beacon_count.
C13_WholeWindowIsAverage ==
    (op = "average_last_n" /\ sequence # <<>> /\ arg[1] >= Len(sequence))
        => /\ ret # None
           /\ AveragePosition(sequence) # None
           /\ SameEstimate(Result, AveragePosition(sequence)[1])

\* C13 witness: average_last_n(3) on a history of two results at different
\* places has answered.
C13_Witness ==
    /\ op = "average_last_n"
    /\ Len(sequence) = 2
    /\ sequence[1].x # sequence[2].x
    /\ arg = <<3>>
    /\ ret # None
    /\ IsFinite(Result.x)

\* the last min(n, len) entries of the history
Window(n) ==
    SubSeq(sequence, Len(sequence) - (IF n < Len(sequence) THEN n ELSE Len(sequence)) + 1,
           Len(sequence))

\* r holds the unweighted means of the x, y, z, confidence and error of w
IsMeanOf(r, w) ==
    /\ RMul(r.x, F(Len(w))) = RSum([i \in 1..Len(w) |-> w[i].x])
    /\ RMul(r.y, F(Len(w))) = RSum([i \in 1..Len(w) |-> w[i].y])
    /\ RMul(r.z, F(Len(w))) = RSum([i \in 1..Len(w) |-> w[i].z])
    /\ RMul(r.confidence, F(Len(w))) = RSum([i \in 1..Len(w) |-> w[i].confidence])
    /\ RMul(r.error, F(Len(w))) = RSum([i \in 1..Len(w) |-> w[i].error])

\* the method tags of average_last_n(1), average_last_n(2), ...
AverageLastTags ==
    <<"average_last_1", "average_last_2", "average_last_3", "average_last_4",
      "average_last_5", "average_last_6">>

\* what the averages return
AveragesAnswer ==
    /\ (op \in {"average_position", "average_last_n"} /\ sequence = <<>>) => ret = None
    /\ (op = "average_position" /\ sequence # <<>>)
           => /\ ret # None
              /\ IsMeanOf(Result, sequence)
              /\ Result.beacon_count = 0
              /\ Result.method = "average"
    /\ (op = "average_last_n" /\ sequence # <<>> /\ arg[1] >= 1)
           => /\ ret # None
              /\ IsMeanOf(Result, Window(arg[1]))
              /\ Result.beacon_count = 0
              /\ Result.method = AverageLastTags[arg[1]]

\* C14: average_position and average_last_n return None on an empty history;
\* on a non-empty one (n >= 1) they return the unweighted mean of x, y, z,
\* confidence and error over the whole history, respectively its last
\* min(n, len) entries, with beacon_count 0 and the tag "average",
\* respectively "average_last_<n>"; neither changes the history.
C14_AveragesAreMeans ==
    /\ []AveragesAnswer
    /\ [][op' \in {"average_position", "average_last_n"} => sequence' = sequence]_vars

\* C14 witness: average_last_n(2) on a history of three results has returned
\* the mean of the last two, which is not the mean of all three.
C14_Witness ==
    /\ op = "average_last_n"
    /\ Len(sequence) = 3
    /\ arg = <<2>>
    /\ ret # None
    /\ Result.x = RDiv(RAdd(sequence[2].x, sequence[3].x), F(2))
    /\ Result.x # AveragePosition(sequence)[1].x

(***************************************************************************)
(* BeaconSet                                                               *)
(***************************************************************************)
\* the last beacon with the id in list, if any
LastInList(list, id) ==
    LET hits == {i \in 1..Len(list) : list[i].id = id}
    IN  IF hits = {} THEN None
        ELSE Some(list[CHOOSE i \in hits : \A j \in hits : j <= i])

\* the beacon the calls of h have left under id: the one added last, unless
\* a remove of the id or a clear came after it
RECURSIVE Placed(_, _)
Placed(h, id) ==
    IF h = <<>> THEN None
    ELSE LET e == h[Len(h)]
             before == SubSeq(h, 1, Len(h) - 1)
         IN  CASE e.call = "BeaconSet::add_beacon" ->
                      IF e.args[1].id = id THEN Some(e.args[1]) ELSE Placed(before, id)
               [] e.call \in {"BeaconSet::add_beacons", "BeaconSet::from_vec"} ->
                      IF LastInList(e.args[1], id) # None THEN LastInList(e.args[1], id)
                      ELSE Placed(before, id)
               [] e.call = "BeaconSet::remove" ->
                      IF e.args[1] = id THEN None ELSE Placed(before, id)
               [] OTHER -> None

\* the ids a beacon is placed under
PlacedIds == {id \in Ids : Placed(history, id) # None}

\* C15: after any sequence of from_vec, add_beacon, add_beacons, remove and
\* clear, the set holds at most one beacon per id, len() is the number of
\* ids present, get(id) is the beacon added last under id, and get(id) is
\* None after remove(id) or clear().
C15_LastInsertWins ==
    op \in BeaconSetOps =>
        /\ \A j, k \in DOMAIN beacon_set : j # k => beacon_set[j].id # beacon_set[k].id
        /\ BeaconSetLen(beacon_set) = Cardinality(PlacedIds)
        /\ \A id \in Ids : BeaconSetGet(beacon_set, id) = Placed(history, id)
        /\ op = "BeaconSet::get" => ret = Placed(history, arg[1])
        /\ op = "BeaconSet::len" => ret = Some(Cardinality(PlacedIds))
        /\ op = "BeaconSet::remove" => BeaconSetGet(beacon_set, arg[1]) = None
        /\ op = "BeaconSet::clear" => \A id \in Ids : BeaconSetGet(beacon_set, id) = None

\* C15 witness: B1 was added twice with different coordinates; get("B1")
\* has returned the second beacon and the set holds one beacon.
C15_Witness ==
    /\ op = "BeaconSet::get"
    /\ arg = <<"B1">>
    /\ Len(history) = 3
    /\ history[2].call = "BeaconSet::add_beacon"
    /\ history[3].call = "BeaconSet::add_beacon"
    /\ history[2].args[1].id = "B1"
    /\ history[3].args[1].id = "B1"
    /\ history[2].args[1] # history[3].args[1]
    /\ ret = Some(history[3].args[1])
    /\ BeaconSetLen(beacon_set) = 1

\* the call that leads to the next state adds a beacon with the id, removes
\* the id, or builds or empties the whole set
AddsOrRemoves(id) ==
    \/ op' \in {"BeaconSet::from_vec", "BeaconSet::clear"}
    \/ op' = "BeaconSet::add_beacon" /\ arg'[1].id = id
    \/ op' = "BeaconSet::add_beacons" /\ LastInList(arg'[1], id) # None
    \/ op' = "BeaconSet::remove" /\ arg'[1] = id

\* C16: a beacon is immutable once placed: its id, name and coordinates as
\* returned by get(id) stay the same under every later public operation
\* that does not add or remove that id, and the beacon stored under a key
\* carries that key as its id.
C16_AnchorImmutable ==
    /\ [][\A id \in DOMAIN beacon_set :
              ~AddsOrRemoves(id) => BeaconSetGet(beacon_set', id) = BeaconSetGet(beacon_set, id)]_vars
    /\ [](\A id \in DOMAIN beacon_set : beacon_set[id].id = id)

(***************************************************************************)
(* SignalReadings                                                          *)
(***************************************************************************)
\* the <<id, rssi>> reports of one call
ReportsOf(e) ==
    CASE e.call = "SignalReadings::add" -> <<e.args>>
      [] e.call \in {"SignalReadings::add_multiple", "SignalReadings::from_pairs"} ->
             e.args[1]
      [] e.call = "SignalReadings::from_measurements" ->
             [i \in 1..Len(e.args[1]) |-> <<e.args[1][i].beacon_id, e.args[1][i].rssi>>]
      [] OTHER -> <<>>

\* the reports of the calls of h, in the order they were delivered
RECURSIVE Reported(_)
Reported(h) ==
    IF h = <<>> THEN <<>>
    ELSE Reported(SubSeq(h, 1, Len(h) - 1)) \o ReportsOf(h[Len(h)])

\* the signal strength reported last for id among the reports rs, if any
LastReported(rs, id) ==
    LET hits == {i \in 1..Len(rs) : rs[i][1] = id}
    IN  IF hits = {} THEN None
        ELSE Some(rs[CHOOSE i \in hits : \A j \in hits : j <= i][2])

\* the ids among the reports rs
ReportedIds(rs) == {rs[i][1] : i \in 1..Len(rs)}

\* the reports rs as SignalMeasurement values
AsMeasurements(rs) == [i \in 1..Len(rs) |-> SignalMeasurementNew(rs[i][1], rs[i][2])]

\* the snapshot built by SignalReadings::new and one add per report
RECURSIVE AddedOneByOne(_)
AddedOneByOne(rs) ==
    IF rs = <<>> THEN ReadingsNew
    ELSE ReadingsAdd(AddedOneByOne(SubSeq(rs, 1, Len(rs) - 1)),
                     rs[Len(rs)][1], rs[Len(rs)][2])

\* C17: a SignalReadings holds at most one signal strength per beacon id, the
\* one reported last: whatever mix of add, add_multiple, from_pairs and
\* from_measurements delivered the reports, get(id) is the last one reported
\* for id, count() is the number of different ids reported, and the four
\* paths build the same mapping from the same reports.
C17_LatestReadingWins ==
    op \in ReadingsOps =>
        LET rs == Reported(history)
        IN  /\ \A id \in Ids : SignalsGet(signals, id) = LastReported(rs, id)
            /\ ReadingsCount(signals) = Cardinality(ReportedIds(rs))
            /\ op = "SignalReadings::get" => ret = LastReported(rs, arg[1])
            /\ op = "SignalReadings::count" => ret = Some(Cardinality(ReportedIds(rs)))
            /\ signals = ReadingsFromPairs(rs)
            /\ signals = ReadingsFromMeasurements(AsMeasurements(rs))
            /\ signals = ReadingsAddMultiple(ReadingsNew, rs)
            /\ signals = AddedOneByOne(rs)

\* C17 witness: B1 was reported through from_pairs and then, with another
\* strength, through add; get("B1") has returned the second strength.
C17_Witness ==
    /\ op = "SignalReadings::get"
    /\ arg = <<"B1">>
    /\ Len(history) = 2
    /\ history[1].call = "SignalReadings::from_pairs"
    /\ history[1].args[1] = <<<<"B1", -50>>, <<"B2", -50>>>>
    /\ history[2] = Called("SignalReadings::add", <<"B1", -70>>)
    /\ ret = Some(-70)
    /\ ReadingsCount(signals) = 2

(***************************************************************************)
(* RSSIModel                                                               *)
(***************************************************************************)
\* what validate returns
ValidateAnswers ==
    op = "validate" =>
        /\ ret # None
        /\ ~Result.ok <=> (RGe(rssi_model.b, F(0)) \/ RGt(rssi_model.a, F(0)))
        /\ (RGe(rssi_model.b, F(0)) /\ RGt(rssi_model.a, F(0))) => Result = Err("slope")

\* C18: validate returns an error exactly when b >= 0 or a > 0 and Ok
\* otherwise; when both hold the reason given is the slope's; validate does
\* not modify the model.
C18_ValidateRejectsBadSlopeOrIntercept ==
    /\ []ValidateAnswers
    /\ [][op' = "validate" => rssi_model' = rssi_model]_vars

\* C18 witness: a model with slope 0 and intercept 10 was validated and
\* rejected for its slope.
C18_Witness ==
    /\ op = "validate"
    /\ rssi_model.b = F(0)
    /\ rssi_model.a = F(10)
    /\ Result = Err("slope")

\* the calls that compute a distance from a signal strength
DistanceOps == {"rssi_to_distance", "rssi_to_distance_f64", "positioning::rssi_to_distance"}

\* C19: rssi_to_distance never divides by zero: on every model it is
\* evaluated on, whatever constructor built it, the slope b is not zero.
C19_SlopeNonZeroAtDivision == op \in DistanceOps => rssi_model.b # F(0)

\* the length of one unit in millimetres
InMillimeters(unit) ==
    IF unit = "Meter" THEN 1000 ELSE IF unit = "Centimeter" THEN 10 ELSE 1

\* C20: convert_to_unit(d, target) is d times the fixed factor between the
\* model's unit and the target unit, for positive, zero and negative d.
C20_ConvertIsLinear ==
    op = "convert_to_unit" =>
        ret = Some(RMul(arg[1], Q(InMillimeters(rssi_model.unit), InMillimeters(arg[2]))))

(***************************************************************************)
(* The exact solve and the entries after the third                         *)
(***************************************************************************)
\* r and s agree in x, y, z, error and confidence, or are both None
SameSolve(r, s) ==
    IF r = None \/ s = None THEN r = s
    ELSE /\ r[1].x = s[1].x
         /\ r[1].y = s[1].y
         /\ r[1].z = s[1].z
         /\ r[1].error = s[1].error
         /\ r[1].confidence = s[1].confidence

\* C21: the exact 3-point solve uses exactly the first three entries: the
\* result on a list is, in x, y, z, error and confidence, the result on its
\* first three entries, whatever entries follow.
C21_OnlyFirstThreeCount ==
    /\ (op = "legacy_basic" /\ Len(meas) >= 3)
           => SameSolve(ret, LegacyTrilaterationBasic(Take(meas, 3)))
    /\ (op = "trilateration_basic" /\ Len(beacons) >= 3)
           => SameSolve(ret, TrilaterationBasic(Take(beacons, 3), signals, rssi_model))

(***************************************************************************)
(* Confidence and error of the solvers                                     *)
(***************************************************************************)
\* the calls of the six solvers
SolveOps == ExactSolveOps \union WeightedSolveOps \union LeastSquaresOps

\* v.clamp(lo, hi)
Clamp(v, lo, hi) ==
    IF IsNaN(v) THEN NaN ELSE IF RLt(v, lo) THEN lo ELSE IF RGt(v, hi) THEN hi ELSE v

\* clamp(1 / (1 + error/100), 0, 1)
ClampedConfidence(error) ==
    Clamp(RDiv(F(1), RAdd(F(1), RDiv(error, F(100)))), F(0), F(1))

\* what the unweighted solvers return on the entries of the state
OtherSolves ==
    {TrilaterationBasicImpl(meas), TrilaterationLeastSquaresImpl(meas),
     LegacyTrilaterationBasic(meas), LegacyTrilaterationWeighted(meas),
     LegacyTrilaterationLeastSquares(meas)} \ {None}

\* C22: every result of a trilateration variant has confidence
\* clamp(1 / (1 + error/100), 0, 1) of its own error, so a result with a
\* smaller error never has a smaller confidence.
C22_ConfidenceFollowsError ==
    (op \in SolveOps /\ ret # None) =>
        /\ Result.confidence = ClampedConfidence(Result.error)
        /\ \A s \in OtherSolves :
               RLt(s[1].error, Result.error) => RGe(s[1].confidence, Result.confidence)

\* C22 witness: a solver has returned an error above 0 and a confidence
\* below 1, and another solver has a smaller error on the same entries.
C22_Witness ==
    /\ op \in SolveOps
    /\ ret # None
    /\ RGt(Result.error, F(0))
    /\ RLt(Result.confidence, F(1))
    /\ \E s \in OtherSolves : RLt(s[1].error, Result.error)

(***************************************************************************)
(* KalmanFilter1D::update and KalmanFilter3D                               *)
(***************************************************************************)
\* the predicted covariance p1 = p + q of an update of the filter f
Predicted(f) == FAdd(f.p, f.q)

\* the gain k = p1 / (p1 + r) of an update of the filter f
GainOf(f) == FDiv(Predicted(f), FAdd(Predicted(f), f.r))

\* the step is a call of KalmanFilter1D::update
Updating == op' = "KalmanFilter1D::update"

\* C23: update(m) is one predict-then-correct step: with p1 = p + q and
\* k = p1 / (p1 + r), value becomes value + k * (m - value) and p becomes
\* (1 - k) * p1; the call returns the new value and leaves q and r alone.
C23_UpdateIsPredictThenCorrect ==
    [][Updating =>
           /\ filter'[1].value
                  = FAdd(filter[1].value,
                         FMul(GainOf(filter[1]), FSub(arg'[1], filter[1].value)))
           /\ filter'[1].p
                  = FMul(FSub(F(1), GainOf(filter[1])), Predicted(filter[1]))
           /\ ret' = Some(filter'[1].value)
           /\ filter'[1].q = filter[1].q
           /\ filter'[1].r = filter[1].r]_vars

\* a second update with a measurement away from the estimate, which moves
\* the estimate, after a first one has changed the covariance
C23_Witness ==
    /\ op = "KalmanFilter1D::update"
    /\ Len(history) = 3
    /\ history[2].args # history[3].args
    /\ filter[1].q # F(0)
    /\ filter[1].p # F(1)
    /\ ret # Some(history[3].args[1])

\* the 1D filter that new's q, r and the axis's initial value build and that
\* is fed the axis's coordinate of the first n updates of the run, alone
RECURSIVE Alone(_, _)
Alone(axis, n) ==
    IF n = 0
    THEN KalmanFilter1DNew(history[1].args[1], history[1].args[2], history[1].args[2 + axis])
    ELSE KalmanUpdate(Alone(axis, n - 1), history[n + 1].args[axis])

\* the run is one on a 3D filter
OnFilter3D == op \in Filter3DOps

\* C24: a KalmanFilter3D is three independent 1D filters: after any updates
\* each axis holds what a 1D filter with the same q, r and initial value, fed
\* that axis's measurements only, holds (so no axis depends on another axis's
\* measurements), and state() is the tuple the last update returned.
C24_ThreeIndependentFilters ==
    /\ [](OnFilter3D =>
              /\ filter[1].x_filter = Alone(1, Updates)
              /\ filter[1].y_filter = Alone(2, Updates)
              /\ filter[1].z_filter = Alone(3, Updates))
    /\ [][(OnFilter3D /\ Updates >= 1 /\ op' = "KalmanFilter3D::state") => ret' = ret]_vars

\* state() after two updates that fed the axes different coordinates, and
\* differently each time
C24_Witness ==
    /\ op = "KalmanFilter3D::state"
    /\ Len(history) = 3
    /\ history[2].args[1] # history[2].args[2]
    /\ history[3].args[1] # history[3].args[2]
    /\ history[2].args # history[3].args
    /\ ret[1][1] # ret[1][2]
    /\ ret[1][2] # ret[1][3]

\* v lies strictly between a and b
StrictlyBetween(v, a, b) == (RLt(a, v) /\ RLt(v, b)) \/ (RLt(b, v) /\ RLt(v, a))

\* C25: with q >= 0 and r > 0, every update has a gain strictly between 0
\* and 1 and leaves the covariance p strictly positive, and it moves the
\* estimate strictly between the previous estimate and the measurement when
\* the two differ.
C25_GainStrictlyInside ==
    [][(Updating /\ RGe(filter[1].q, F(0)) /\ RGt(filter[1].r, F(0))) =>
           /\ RGt(GainOf(filter[1]), F(0))
           /\ RLt(GainOf(filter[1]), F(1))
           /\ RGt(filter'[1].p, F(0))
           /\ (arg'[1] # filter[1].value
                   => StrictlyBetween(filter'[1].value, filter[1].value, arg'[1]))]_vars

\* the results r and s are both None, or both at the same x and y
SameFix(r, s) ==
    IF r = None \/ s = None THEN r = s
    ELSE r[1].x = s[1].x /\ r[1].y = s[1].y

\* the solve of op was given strictly positive weights
PositiveWeights ==
    /\ op = "_trilateration_weighted_impl" => \A i \in DOMAIN arg : RGt(arg[i], F(0))
    /\ op = "_trilateration_weighted_impl, small weights"
           => \A i \in DOMAIN arg[1] : RGt(arg[1][i], F(0))

\* C26: on the same three entries and with strictly positive weights, the
\* weighted solve returns a result exactly when the exact solve does, and at
\* the same x and y.
C26_WeightsKeepTheFix ==
    /\ (op = "_trilateration_weighted_impl" /\ Len(meas) = 3 /\ PositiveWeights)
           => SameFix(ret, TrilaterationBasicImpl(meas))
    /\ (op = "_trilateration_weighted_impl, small weights" /\ Len(meas) = 3
            /\ PositiveWeights)
           => SameFix(ret, TrilaterationBasicImpl(meas))
    /\ (op = "legacy_weighted" /\ Len(meas) = 3)
           => SameFix(ret, LegacyTrilaterationBasic(meas))

\* the signal strengths trilateration_weighted computes weights from
WeighedRssi == {signals[Weighed(beacons, signals)[i].id] : i \in DOMAIN Weighed(beacons, signals)}

\* C27: trilateration_weighted computes the weight of every reading, whatever
\* i16 it is, without integer overflow or panic, and the weight is finite and
\* strictly positive.
C27_WeightNeverOverflows ==
    /\ op # "trilateration_weighted: panic"
    /\ op = "trilateration_weighted" =>
           \A rssi \in WeighedRssi :
               /\ ~NegOverflows(rssi)
               /\ IsFinite(SignalWeight(rssi))
               /\ RGt(SignalWeight(rssi), F(0))

\* C28: the legacy trilateration_weighted never weights a nearer measurement
\* less than a farther one: for entries at distances 0 <= d1 <= d2 the
\* weight of d1 is at least the weight of d2.
C28_NearerWeighsMore ==
    op = "legacy_weighted" =>
        \A i, j \in DOMAIN meas :
            (RGe(meas[i].d, F(0)) /\ RLe(meas[i].d, meas[j].d))
                => RGe(LegacyWeight(meas[i].d), LegacyWeight(meas[j].d))

(***************************************************************************)
(* positioning::KalmanFilter                                               *)
(***************************************************************************)
\* the position the filter f predicts for an update after ticks
PredictedX(f, ticks) == RAdd(f.x, RMul(f.vx, F(ticks)))

PredictedY(f, ticks) == RAdd(f.y, RMul(f.vy, F(ticks)))

\* v is at a, or strictly between a and b
Toward(v, a, b) == IF a = b THEN v = a ELSE StrictlyBetween(v, a, b)

\* C29: KalmanFilter::update(mx, my, dt) predicts each axis's position as
\* position + velocity * dt, corrects it toward the measurement with a gain
\* strictly between 0 and 1, so that the new position lies between the
\* predicted one and the measurement, and then sets the velocity to
\* (measurement - predicted position) / dt; the position covariances stay
\* strictly positive, for every dt >= 0.  (Velocities are held times 1e-10
\* and dt in ticks of 1e-10, so the quotient by dt is the one by the ticks.)
C29_PredictCorrectVelocity ==
    [][op' = "positioning::KalmanFilter::update" =>
           /\ Toward(filter'[1].x, PredictedX(filter[1], arg'[3]), arg'[1])
           /\ Toward(filter'[1].y, PredictedY(filter[1], arg'[3]), arg'[2])
           /\ filter'[1].vx
                  = RDiv(RSub(arg'[1], PredictedX(filter[1], arg'[3])), F(arg'[3]))
           /\ filter'[1].vy
                  = RDiv(RSub(arg'[2], PredictedY(filter[1], arg'[3])), F(arg'[3]))
           /\ RGt(filter'[1].p_xx, F(0))
           /\ RGt(filter'[1].p_yy, F(0))]_vars

\* every number of the result r is a well-defined one
WellDefined(r) ==
    /\ IsFinite(r.x) /\ IsFinite(r.y) /\ IsFinite(r.z)
    /\ IsFinite(r.confidence) /\ IsFinite(r.error)

\* C30: average_last_n(0) on a sequence that holds results never averages an
\* empty window: it returns None, or a result whose x, y, z, confidence and
\* error are well-defined numbers.
C30_NoEmptyWindow ==
    (op = "average_last_n" /\ arg = <<0>> /\ sequence # <<>>)
        => (ret = None \/ WellDefined(Result))
====
